---- MODULE Spec2Model ----
(***************************************************************************)
(* quick-vrt: the batch orchestrator runVRT (src/index.js), the capture    *)
(* routine processPage with its stabilizer sub-routines, and the           *)
(* differencer generateDiff.                                               *)
(*                                                                         *)
(* Spec      the run of runVRT over a list of URL pairs; every awaited     *)
(*           browser or file call may resolve or reject.                   *)
(* SpecDiff  generateDiff applied to two decoded images drawn from a       *)
(*           bounded set, with every outcome of the resampling library.    *)
(***************************************************************************)
EXTENDS Integers, Sequences, FiniteSets, TLC

\* ---- bounds of the model ------------------------------------------------
MaxPairs == 2
MaxPixels == 3

VARIABLES
  urls,        \* main command: the URL arguments
  exitCode,    \* <<code>> once the process has exited, << >> while it runs
  urlPairs,    \* runVRT argument: the list of {before, after}
  options,     \* runVRT argument: the stabilizer switches
  pc,          \* position of runVRT (the await it is suspended at)
  i,           \* loop index of the for loop, 0-based as in the source
  type,        \* "before" / "after": the processPage call in progress
  results,     \* const results = []
  browser,     \* "none" / "open" / "closed"
  page,        \* id of the page of the current pair, 0 when none
  openPages,   \* ids of the pages created and not closed
  nextPageId,  \* number of pages created so far
  dom,         \* what the stabilizers have done to the loaded document
  capLog,      \* steps of the processPage call in progress, in order
  pairLog,     \* capture/diff start and end events of the current pair
  shots,       \* page.screenshot calls of the processPage call in progress
  error,       \* message of the exception travelling to the catch block
  thrower,     \* step that threw it
  warnings,    \* stabilizers that caught a failure, per processPage call
  progress,    \* overallProgress.update calls: <<current, total>>
  dpc,         \* SpecDiff: "call" before generateDiff runs, "settled" after
  dIn,         \* SpecDiff: the arguments of generateDiff
  dOut,        \* SpecDiff: its outcome
  routine,     \* SpecPage: the in-page routine under study
  sc,          \* scrollToBottom: the await it is suspended at
  viewportHeight, \* scrollToBottom: its argument
  below,       \* scrollToBottom: scrollHeight - currentPosition
  pollPc,      \* disableAnimations, in-page wait: the timer that is pending
  checkCount,  \* disableAnimations, in-page wait: let checkCount
  running,     \* disableAnimations, in-page wait: runningAnimations.length
  images,      \* final image wait: state of the promise of each awaited image
  now,         \* final image wait: milliseconds since the wait began
  globalFired, \* final image wait: the global timer has fired
  wait,        \* final image wait: the promise returned to page.evaluate
  ip,          \* disableAnimations script: index of the next statement
  libs,        \* disableAnimations script: animation libraries in window
  disabled,    \* disableAnimations script: libraries it disabled or paused
  patched,     \* disableAnimations script: the timer functions are replaced
  timerCall,   \* patched timers: the last call made by the page, <<>> if none
  nativeCall,  \* patched timers: the call the original function received
  video,       \* maskVideos: the <video> element of the page
  masks,       \* maskVideos: labels of the overlays appended to document.body
  mp,          \* maskVideos: index of the next pass of the script
  lz,          \* triggerLazyLoading: the await it is suspended at
  lazyLog,     \* triggerLazyLoading: scroll commands and image waits issued
  rList,       \* generateReport: the results it is given
  announced,   \* runVRT: the status line logged for each result
  summary,     \* generateReport: <<>> or the summary and cards it wrote
  ui,          \* tui: the component that handles the keys
  tuiPairs,    \* tui: urlPairs of the form
  currentPair, \* tui: index (from 0) of the pair under the cursor
  currentField, \* tui: "before" or "after"
  mode,        \* tui: the screen shown
  saving,      \* tui: the lists whose saveHistory is pending
  submissions, \* tui: the lists onSubmit was called with, in order
  exited,      \* tui: exit() was called
  tuiPc,       \* tui action: the statement it is at
  tuiOut,      \* tui action: what it logged, its exit code, its runVRT call
  saveErrors,  \* history: number of saveHistory calls that rejected
  store,       \* history: the entries of the history file, newest first
  hp,          \* history: the await saveHistory is suspended at
  menuSelection,    \* key handlers: index of the selected menu item
  historyItems,     \* key handlers: the history entries shown
  historySelection, \* key handlers: index of the selected history entry
  deleting,         \* key handlers: the Ctrl+D deletions that are pending
  optionSelection,  \* key handlers: index of the selected option
  editingOption,    \* key handlers: the selected option is being edited
  tempOptionValue,  \* key handlers: the text typed for it
  tuiOptions,       \* key handlers: options, the value of each option
  lastKey,          \* key handlers: the key the options screen handled last
  legacy       \* file-driven runner: position, lines left, stats, main suite

runVars == <<urls, exitCode, urlPairs, options, pc, i, type, results, browser, page,
             openPages, nextPageId, dom, capLog, pairLog, shots, error,
             thrower, warnings, progress>>
diffVars == <<dpc, dIn, dOut>>
reportVars == <<rList, announced, summary>>
tuiVars == <<ui, tuiPairs, currentPair, currentField, mode, saving, submissions,
             exited, tuiPc, tuiOut>>
menuVars == <<menuSelection, historyItems, historySelection, deleting>>
optionVars == <<optionSelection, editingOption, tempOptionValue, tuiOptions,
               lastKey>>
fileVars == <<store, saveErrors, hp>>
legacyVars == <<legacy>>
sideVars == <<reportVars, tuiVars, menuVars, optionVars, fileVars, legacyVars>>
scrollVars == <<sc, viewportHeight, below>>
pollVars == <<pollPc, checkCount, running>>
imageVars == <<images, now, globalFired, wait>>
scriptVars == <<ip, libs, disabled, patched>>
timerVars == <<timerCall, nativeCall>>
maskVars == <<video, masks, mp>>
lazyVars == <<lz, lazyLog>>
pageVars == <<routine, scrollVars, pollVars, imageVars, scriptVars, timerVars,
              maskVars, lazyVars>>
offScroll ==
  <<routine, pollVars, imageVars, scriptVars, timerVars, maskVars, lazyVars,
    runVars, diffVars, sideVars>>
offPoll ==
  <<routine, scrollVars, imageVars, timerVars, maskVars, lazyVars,
    runVars, diffVars, sideVars>>
offImages ==
  <<routine, scrollVars, pollVars, scriptVars, timerVars, maskVars, lazyVars,
    runVars, diffVars, sideVars>>
offMask ==
  <<routine, scrollVars, pollVars, imageVars, scriptVars, timerVars, lazyVars,
    runVars, diffVars, sideVars>>
offTimers ==
  <<routine, scrollVars, pollVars, imageVars, scriptVars, maskVars, lazyVars,
    runVars, diffVars, sideVars>>
offLazy ==
  <<routine, scrollVars, pollVars, imageVars, scriptVars, timerVars, maskVars,
    runVars, diffVars, sideVars>>
offTui == <<runVars, diffVars, pageVars, legacyVars, reportVars, menuVars, optionVars,
           fileVars>>
vars == <<runVars, diffVars, pageVars, sideVars>>

args == <<urls, exitCode, urlPairs, options>>
pages == <<page, openPages, nextPageId>>
capture == <<dom, capLog, shots, warnings>>

None == "none"

\* =========================================================================
\* Differencer: generateDiff and the library calls it makes
\* =========================================================================

\* A decoded PNG: width, height and a row-major pixel buffer.  One entry of
\* data stands for the four channel bytes of one pixel.
PixelValues == {0, 10, 255}

\* The comparison sees two pixels only through their distance: the before
\* image is drawn in black and white, the after image also in a shade that
\* is within the threshold of black.
TwoTone == {0, 255}

ImagesIn(w, h, values) ==
  { [width |-> w, height |-> h, data |-> d] : d \in [1..(w * h) -> values] }

ImagesOf(w, h) == ImagesIn(w, h, PixelValues)

Dims == { wh \in (1..MaxPixels) \X (1..MaxPixels) : wh[1] * wh[2] <= MaxPixels }

Images == UNION { ImagesOf(wh[1], wh[2]) : wh \in Dims }

BeforeImages == UNION { ImagesIn(wh[1], wh[2], TwoTone) : wh \in Dims }

Max(a, b) == IF a > b THEN a ELSE b

\* new PNG({ width, height }): a zero-filled buffer
NewPNG(w, h) == [width |-> w, height |-> h, data |-> [k \in 1..(w * h) |-> 0]]

\* PNG.bitblt(src, dst, 0, 0, src.width, src.height, 0, 0)
Bitblt(src, dst) ==
  [dst EXCEPT !.data =
     [k \in 1..(dst.width * dst.height) |->
        LET x == (k - 1) % dst.width
            y == (k - 1) \div dst.width
        IN IF x < src.width /\ y < src.height
             THEN src.data[y * src.width + x + 1]
             ELSE dst.data[k]]]

\* pixelmatch's colour-distance test at threshold 0.1 of the value range
ColorThreshold == 25

Abs(n) == IF n < 0 THEN 0 - n ELSE n

\* A faulty variant: equal pixels count as different
PixelDiffers_nonstrict(p, q) == Abs(p - q) >= 0

PixelDiffers(p, q) == Abs(p - q) > ColorThreshold

RECURSIVE CountDiff(_, _, _)
CountDiff(d1, d2, n) ==
  IF n = 0 THEN 0
  ELSE CountDiff(d1, d2, n - 1) + (IF PixelDiffers(d1[n], d2[n]) THEN 1 ELSE 0)

\* pixelmatch(img1, img2, output, width, height, options): it rejects buffers
\* of unequal length and buffers that do not hold width * height pixels.
Pixelmatch(img1, img2, output, width, height) ==
  IF Len(img1) # Len(img2) \/ Len(img1) # Len(output)
    THEN [threw |-> TRUE, count |-> 0]
  ELSE IF Len(img1) # width * height
    THEN [threw |-> TRUE, count |-> 0]
  ELSE [threw |-> FALSE, count |-> CountDiff(img1, img2, width * height)]

\* Number.prototype.toFixed(2) of (pixelDiff / totalPixels) * 100
TwoDigits(n) == IF n < 10 THEN "0" \o ToString(n) ELSE ToString(n)

\* A faulty variant: the percentage is cut after two decimals
ToFixed2_truncated(pixelDiff, totalPixels) ==
  LET hundredths == (pixelDiff * 10000) \div totalPixels
  IN ToString(hundredths \div 100) \o "." \o TwoDigits(hundredths % 100)

ToFixed2(pixelDiff, totalPixels) ==
  LET hundredths == (pixelDiff * 10000 * 2 + totalPixels) \div (2 * totalPixels)
  IN ToString(hundredths \div 100) \o "." \o TwoDigits(hundredths % 100)

\* A faulty variant: the warning is only written when the widths differ
SizeWarningText_widthOnly(b, a) ==
  IF b.width = a.width THEN "null"
  ELSE "Image size mismatch: Before(" \o ToString(b.width) \o "x" \o ToString(b.height)
         \o ") vs After(" \o ToString(a.width) \o "x" \o ToString(a.height) \o ")"

SizeWarningText(b, a) ==
  "Image size mismatch: Before(" \o ToString(b.width) \o "x" \o ToString(b.height)
    \o ") vs After(" \o ToString(a.width) \o "x" \o ToString(a.height) \o ")"

SharpOutcomes == {"missing", "rejects", "resolves"}

\* What sharp(...).resize(w, h, { fit: 'fill' }) can resolve to: an image of
\* the requested size whose pixels are decided by the resampling kernel.
ResizeOutputs(in) ==
  IF in.sharp = "resolves"
       /\ (in.before.width # in.after.width \/ in.before.height # in.after.height)
    THEN ImagesOf(in.before.width, in.before.height)
    ELSE {in.after}

DiffThrow(msg) ==
  [threw |-> TRUE, error |-> msg, pixelDiff |-> 0, diffPercentage |-> "",
   sizeWarning |-> "null", strategy |-> None,
   width |-> 0, height |-> 0, lenBefore |-> 0, lenAfter |-> 0, lenDiff |-> 0]

\* The comparison and everything after it (src/index.js 1179-1195)
DiffCompare(in, beforeImg, afterImg, width, height, sizeWarning, strategy) ==
  LET diff == NewPNG(width, height)
      pm == Pixelmatch(beforeImg.data, afterImg.data, diff.data, width, height)
  IN IF pm.threw THEN DiffThrow("Image sizes do not match")
     ELSE IF ~in.writable THEN DiffThrow("EACCES: cannot write diff image")
     ELSE [threw |-> FALSE, error |-> "", pixelDiff |-> pm.count,
           diffPercentage |-> ToFixed2(pm.count, width * height),
           sizeWarning |-> sizeWarning, strategy |-> strategy,
           width |-> width, height |-> height,
           lenBefore |-> Len(beforeImg.data), lenAfter |-> Len(afterImg.data),
           lenDiff |-> Len(diff.data)]

\* A faulty variant: the before image keeps its own buffer
DiffPadded_beforeUnpadded(in, sizeWarning) ==
  LET width == Max(in.before.width, in.after.width)
      height == Max(in.before.height, in.after.height)
      paddedAfter == Bitblt(in.after, NewPNG(width, height))
  IN DiffCompare(in, in.before, paddedAfter, width, height, sizeWarning, "padded")

\* The padding fallback of the catch block (src/index.js 1159-1176)
DiffPadded(in, sizeWarning) ==
  LET width == Max(in.before.width, in.after.width)
      height == Max(in.before.height, in.after.height)
      paddedBefore == Bitblt(in.before, NewPNG(width, height))
      paddedAfter == Bitblt(in.after, NewPNG(width, height))
  IN DiffCompare(in, paddedBefore, paddedAfter, width, height, sizeWarning, "padded")

\* The size-mismatch branch: require('sharp') stands before the try block,
\* so a missing module rejects generateDiff; a rejected resize is caught.
DiffMismatch(in, resized) ==
  LET sizeWarning == SizeWarningText(in.before, in.after)
  IN IF in.sharp = "missing" THEN DiffThrow("Cannot find module 'sharp'")
     ELSE IF in.sharp = "resolves"
       THEN DiffCompare(in, in.before, resized, in.before.width, in.before.height,
                        sizeWarning, "resized")
     ELSE DiffPadded(in, sizeWarning)

\* generateDiff(beforePath, afterPath, diffPath); `in` holds the two files as
\* decoded, whether they decode, what sharp does and whether diffPath can be
\* written; `resized` is the image sharp resolves to.
generateDiff(in, resized) ==
  IF ~in.readable THEN DiffThrow("Invalid file signature")
  ELSE IF in.before.width # in.after.width \/ in.before.height # in.after.height
    THEN DiffMismatch(in, resized)
  ELSE DiffCompare(in, in.before, in.after, in.before.width, in.before.height,
                   "null", "direct")

\* The arguments of generateDiff.  Files that do not decode carry no image,
\* and sharp is only loaded when the dimensions differ.
SameSize(b, a) == b.width = a.width /\ b.height = a.height

ReadableInputs ==
  { in \in [before : BeforeImages, after : Images, readable : {TRUE},
            sharp : SharpOutcomes, writable : BOOLEAN] :
      SameSize(in.before, in.after) => in.sharp = "resolves" }

UnreadableInputs ==
  [before : {NewPNG(1, 1)}, after : {NewPNG(1, 1)}, readable : {FALSE},
   sharp : {"resolves"}, writable : BOOLEAN]

DiffInputs == ReadableInputs \cup UnreadableInputs

\* =========================================================================
\* Orchestrator: runVRT, processPage and the stabilizers
\* =========================================================================

\* The lists of pairs handed to runVRT: both callers pass at least one pair.
\* A list of n pairs takes the first n pairs of the pool (repeated when the
\* pool is exhausted).
PairPool ==
  <<[before |-> "https://a.test/x", after |-> "https://b.test/x"],
    [before |-> "https://a.test/y", after |-> "https://a.test/y"],
    [before |-> "https://b.test/z", after |-> "https://a.test/x"]>>

PoolPair(k) == PairPool[((k - 1) % Len(PairPool)) + 1]

UrlPairLists ==
  { [k \in 1..n |-> PoolPair(k)] : n \in 1..MaxPairs }

\* The URL arguments of the main command: the pairs of the pool laid out
\* flat, cut at any length
PoolUrl(k) ==
  IF k % 2 = 1 THEN PoolPair((k + 1) \div 2).before ELSE PoolPair(k \div 2).after

UrlLists == { [k \in 1..n |-> PoolUrl(k)] : n \in 0..(2 * MaxPairs) }

\* A faulty variant: only the count is checked, not its parity
UsageError_countOnly(list) == Len(list) < 2

\* if (urls.length < 2 || urls.length % 2 !== 0)
UsageError(list) == Len(list) < 2 \/ Len(list) % 2 # 0

\* for (let i = 0; i < urls.length; i += 2)
\*   pairs.push({ before: urls[i], after: urls[i + 1] })
ToPairs(list) ==
  [k \in 1..((Len(list) + 1) \div 2) |->
     [before |-> list[2 * k - 1],
      after |-> IF 2 * k <= Len(list) THEN list[2 * k] ELSE "undefined"]]

OptionSets ==
  [disableAnimations : BOOLEAN, lazyLoading : BOOLEAN, maskVideos : BOOLEAN]

\* A faulty variant: the id is built from the 0-based loop index
pairId_zeroBased(idx) == "pair-" \o ToString(idx)

\* const pairId = `pair-${i + 1}`
pairId(idx) == "pair-" \o ToString(idx + 1)

FreshDom ==
  [styleTag |-> FALSE, timersPatched |-> FALSE, lazyPromoted |-> FALSE,
   swept |-> FALSE, masked |-> FALSE]

\* The full-page screenshots generateDiff is given in a run
ShotImages ==
  { [width |-> 1, height |-> 1, data |-> <<255>>],
    [width |-> 1, height |-> 2, data |-> <<255, 0>>] }

RunDiffInputs ==
  [before : ShotImages, after : ShotImages, readable : BOOLEAN,
   sharp : SharpOutcomes, writable : BOOLEAN]

\* results.push({...}) of the try block
SuccessResult(idx, pair, diffResult) ==
  [id |-> pairId(idx), beforeUrl |-> pair.before, afterUrl |-> pair.after,
   beforeImage |-> "screenshots/" \o pairId(idx) \o "-before.png",
   afterImage |-> "screenshots/" \o pairId(idx) \o "-after.png",
   diffImage |-> "diffs/" \o pairId(idx) \o "-diff.png",
   pixelDiff |-> diffResult.pixelDiff,
   diffPercentage |-> diffResult.diffPercentage,
   sizeWarning |-> diffResult.sizeWarning]

\* A faulty variant: the catch block records the pair without its message
ErrorResult_unpopulated(idx, pair, message) ==
  [id |-> pairId(idx), beforeUrl |-> pair.before, afterUrl |-> pair.after,
   error |-> ""]

\* results.push({...}) of the catch block
ErrorResult(idx, pair, message) ==
  [id |-> pairId(idx), beforeUrl |-> pair.before, afterUrl |-> pair.after,
   error |-> message]

\* ---- control transfer ---------------------------------------------------
ProtocolError == "Protocol error: Target closed"
NavigationError == "Navigation timeout of 45000 ms exceeded"

ScreenshotCalls == {"screenshot", "retryScreenshot"}

\* The next await of runVRT itself
Proceed(next) ==
  /\ pc' = next
  /\ UNCHANGED <<type, error, thrower, pairLog>>

\* The next await inside processPage: capLog lists the calls it has issued,
\* shots counts the page.screenshot calls among them
ProceedInPage(next) ==
  /\ Proceed(next)
  /\ capLog' = Append(capLog, next)
  /\ shots' = IF next \in ScreenshotCalls THEN shots + 1 ELSE shots

\* An exception raised outside the try block of the for loop: runVRT rejects
Reject(step, message) ==
  /\ pc' = "rejected"
  /\ error' = message
  /\ thrower' = step
  /\ UNCHANGED <<type, pairLog>>

\* A faulty variant: no try block around the body of the loop
Throw_escapes(step, message) ==
  /\ Reject(step, message)
  /\ UNCHANGED capture

\* An exception raised inside the try block of the for loop: control is in
\* the catch block and the block-scoped page is gone
Throw(step, message) ==
  /\ pc' = "catch"
  /\ error' = message
  /\ thrower' = step
  /\ dom' = FreshDom
  /\ capLog' = <<>>
  /\ warnings' = {}
  /\ UNCHANGED <<type, pairLog, shots>>

\* A faulty variant: processPage swallows the exception and resolves
ProcessPageThrow_swallowed(step, message) ==
  /\ error' = message
  /\ thrower' = step
  /\ pc' = IF type = "before" THEN "goto" ELSE "close"
  /\ type' = IF type = "before" THEN "after" ELSE None
  /\ pairLog' = Append(pairLog, <<type, "end">>)
  /\ capLog' = <<>>
  /\ UNCHANGED <<dom, shots, warnings>>

\* processPage has no try/catch around goto, the stability check and the
\* retried screenshot: their exceptions leave processPage.
ProcessPageThrow(step, message) == Throw(step, message)

\* await processPage(pair.before, ...): page.goto is awaited first
CallProcessPage(t) ==
  /\ pc' = "goto"
  /\ type' = t
  /\ pairLog' = Append(pairLog, <<t, "start">>)
  /\ capLog' = <<"goto">>
  /\ shots' = 0
  /\ warnings' = {}
  /\ UNCHANGED <<error, thrower, dom>>

\* A faulty variant: the first processPage call is followed by page.close()
ProcessPageReturn_skipsAfter ==
  /\ pc' = "close"
  /\ type' = None
  /\ pairLog' = Append(pairLog, <<type, "end">>)
  /\ capLog' = <<>>
  /\ shots' = 0
  /\ warnings' = {}
  /\ UNCHANGED <<error, thrower, dom>>

\* processPage resolves: the before capture is followed by the after capture,
\* the after capture by page.close()
ProcessPageReturn ==
  IF type = "before"
    THEN /\ pc' = "goto"
         /\ type' = "after"
         /\ pairLog' = pairLog \o << <<"before", "end">>, <<"after", "start">> >>
         /\ capLog' = <<"goto">>
         /\ shots' = 0
         /\ warnings' = {}
         /\ UNCHANGED <<error, thrower, dom>>
    ELSE /\ pc' = "close"
         /\ type' = None
         /\ pairLog' = Append(pairLog, <<"after", "end">>)
         /\ capLog' = <<>>
         /\ shots' = 0
         /\ warnings' = {}
         /\ UNCHANGED <<error, thrower, dom>>

\* ---- the stabilizer switches of processPage -----------------------------
\* A faulty variant: masking is called first
StabilizerOrder_maskFirst == <<"maskVideos", "disableAnimations", "triggerLazyLoading">>

StabilizerOrder == <<"disableAnimations", "triggerLazyLoading", "maskVideos">>

\* A faulty variant: the switches are ignored
StabilizerEnabled_always(name) == TRUE

\* if (options.X !== false)
StabilizerEnabled(name) ==
  CASE name = "disableAnimations" -> options.disableAnimations
    [] name = "triggerLazyLoading" -> options.lazyLoading
    [] name = "maskVideos" -> options.maskVideos

\* The first enabled stabilizer at or after position k, else the final
\* stability check
RECURSIVE StepFrom(_)
StepFrom(k) ==
  IF k > Len(StabilizerOrder) THEN "stability"
  ELSE IF StabilizerEnabled(StabilizerOrder[k]) THEN StabilizerOrder[k]
  ELSE StepFrom(k + 1)

PositionOf(name) == CHOOSE k \in 1..Len(StabilizerOrder) : StabilizerOrder[k] = name

StepAfter(name) == StepFrom(PositionOf(name) + 1)

\* A stabilizer ran to its end
StabilizerDone(name, newDom) ==
  /\ dom' = newDom
  /\ warnings' = warnings
  /\ ProceedInPage(StepAfter(name))

\* A faulty variant: the stabilizer lets the exception out
StabilizerCatch_rethrows(name, newDom) == Throw(name, ProtocolError)

\* The catch block every stabilizer ends with: console.warn and return
StabilizerCatch(name, newDom) ==
  /\ dom' = newDom
  /\ warnings' = warnings \cup {name}
  /\ ProceedInPage(StepAfter(name))

\* ---- runVRT -------------------------------------------------------------
IdleDiffInput ==
  [before |-> NewPNG(1, 1), after |-> NewPNG(1, 1), readable |-> TRUE,
   sharp |-> "resolves", writable |-> TRUE]

DiffIdle == dpc = "idle" /\ dIn = IdleDiffInput /\ dOut = DiffThrow("")

ScrollIdle == sc = "idle" /\ viewportHeight = 0 /\ below = 0

PollIdle == pollPc = "idle" /\ checkCount = 0 /\ running = 0

ImagesIdle == images = <<>> /\ now = 0 /\ globalFired = FALSE /\ wait = "idle"

ScriptIdle == ip = 0 /\ libs = {} /\ disabled = {} /\ patched = FALSE

LazyIdle == lz = "idle" /\ lazyLog = <<>>

ReportIdle == rList = <<>> /\ announced = <<>> /\ summary = <<>>

TuiIdle ==
  /\ ui = None /\ tuiPairs = <<>> /\ currentPair = 0 /\ currentField = "before"
  /\ mode = None /\ saving = <<>> /\ submissions = <<>> /\ exited = FALSE
  /\ tuiPc = "idle"
  /\ tuiOut = [message |-> "", exitCode |-> <<>>, runVRT |-> <<>>]

MenuIdle ==
  /\ menuSelection = 0 /\ historyItems = <<>> /\ historySelection = 0
  /\ deleting = <<>>

OptionsIdle ==
  /\ optionSelection = 0 /\ editingOption = FALSE /\ tempOptionValue = <<>>
  /\ tuiOptions = <<>> /\ lastKey = None

FileIdle == store = <<>> /\ saveErrors = 0 /\ hp = "idle"

LegacyIdle ==
  legacy = [pc |-> "idle", lines |-> <<>>,
            stats |-> [tests |-> 0, passes |-> 0, failures |-> 0],
            tests |-> <<>>]

SideIdle ==
  /\ ReportIdle /\ TuiIdle /\ MenuIdle /\ OptionsIdle /\ FileIdle
  /\ LegacyIdle

PageIdle ==
  /\ routine = None
  /\ ScrollIdle /\ PollIdle /\ ImagesIdle /\ ScriptIdle
  /\ timerCall = <<>> /\ nativeCall = <<>>
  /\ video = None /\ masks = <<>> /\ mp = 0
  /\ LazyIdle

Init ==
  /\ urls \in UrlLists
  /\ exitCode = <<>>
  /\ urlPairs = <<>>
  /\ options \in OptionSets
  /\ pc = "main"
  /\ i = 0
  /\ type = None
  /\ results = <<>>
  /\ browser = "none"
  /\ page = 0
  /\ openPages = {}
  /\ nextPageId = 0
  /\ dom = FreshDom
  /\ capLog = <<>>
  /\ pairLog = <<>>
  /\ shots = 0
  /\ error = ""
  /\ thrower = None
  /\ warnings = {}
  /\ progress = <<>>
  /\ DiffIdle
  /\ PageIdle
  /\ SideIdle

\* The action of the main command: the usage check, the pairing loop and the
\* call of runVRT.  (Without any URL commander itself reports the missing
\* argument and exits with code 1 before the action runs.)
MainAction ==
  /\ pc = "main"
  /\ IF UsageError(urls)
       THEN /\ pc' = "exited"
            /\ exitCode' = <<1>>
            /\ UNCHANGED urlPairs
       ELSE /\ pc' = "mkdir"
            /\ urlPairs' = ToPairs(urls)
            /\ UNCHANGED exitCode
  /\ UNCHANGED <<urls, options, i, type, results, browser, pages, capture,
                 pairLog, error, thrower, progress, diffVars, pageVars, sideVars>>

\* await fs.mkdir(...) three times
Mkdir ==
  /\ pc = "mkdir"
  /\ \E ok \in BOOLEAN :
       IF ok THEN Proceed("launch") ELSE Reject("mkdir", "EACCES: permission denied")
  /\ UNCHANGED <<args, i, results, browser, pages, capture, progress, diffVars, pageVars, sideVars>>

\* const browser = await puppeteer.launch()
Launch ==
  /\ pc = "launch"
  /\ \E ok \in BOOLEAN :
       IF ok THEN browser' = "open" /\ Proceed("loop")
       ELSE browser' = browser /\ Reject("launch", "Failed to launch the browser process")
  /\ UNCHANGED <<args, i, results, pages, capture, progress, diffVars, pageVars, sideVars>>

\* for (let i = 0; i < urlPairs.length; i++)
LoopHead ==
  /\ pc = "loop"
  /\ pc' = IF i < Len(urlPairs) THEN "newPage" ELSE "browserClose"
  /\ pairLog' = <<>>
  /\ shots' = 0
  /\ UNCHANGED <<args, i, type, results, browser, pages, error, thrower,
                 dom, capLog, warnings, progress, diffVars, pageVars, sideVars>>

\* A faulty variant: the page of the previous pair is taken again
NewPage_reuses ==
  /\ pc = "newPage"
  /\ \E ok \in BOOLEAN :
       IF ok
         THEN /\ page' = IF page = 0 THEN 1 ELSE page
              /\ nextPageId' = IF page = 0 THEN 1 ELSE nextPageId
              /\ openPages' = openPages \cup {page'}
              /\ Proceed("setUserAgent")
              /\ UNCHANGED capture
         ELSE /\ UNCHANGED pages
              /\ Throw("newPage", ProtocolError)
  /\ UNCHANGED <<args, i, results, browser, progress, diffVars, pageVars, sideVars>>

\* const page = await browser.newPage()
NewPage ==
  /\ pc = "newPage"
  /\ \E ok \in BOOLEAN :
       IF ok
         THEN /\ page' = nextPageId + 1
              /\ nextPageId' = nextPageId + 1
              /\ openPages' = openPages \cup {nextPageId + 1}
              /\ Proceed("setUserAgent")
              /\ UNCHANGED capture
         ELSE /\ UNCHANGED pages
              /\ Throw("newPage", ProtocolError)
  /\ UNCHANGED <<args, i, results, browser, progress, diffVars, pageVars, sideVars>>

\* await page.setUserAgent(userAgent)
SetUserAgent ==
  /\ pc = "setUserAgent"
  /\ \E ok \in BOOLEAN :
       IF ok THEN Proceed("setViewport") /\ UNCHANGED capture
       ELSE Throw("setUserAgent", ProtocolError)
  /\ UNCHANGED <<args, i, results, browser, pages, progress, diffVars, pageVars, sideVars>>

\* await page.setViewport(...); then processPage(pair.before, ...) is called
SetViewport ==
  /\ pc = "setViewport"
  /\ \E ok \in BOOLEAN :
       IF ok THEN CallProcessPage("before") ELSE Throw("setViewport", ProtocolError)
  /\ UNCHANGED <<args, i, results, browser, pages, progress, diffVars, pageVars, sideVars>>

\* ---- processPage --------------------------------------------------------
\* await page.goto(url, ...): a new document is loaded
Goto ==
  /\ pc = "goto"
  /\ \E ok \in BOOLEAN :
       IF ok
         THEN /\ dom' = FreshDom
              /\ warnings' = warnings
              /\ ProceedInPage(StepFrom(1))
         ELSE ProcessPageThrow("goto", NavigationError)
  /\ UNCHANGED <<args, i, results, browser, pages, progress, diffVars, pageVars, sideVars>>

\* await disableAnimations(page): addStyleTag, then the in-page script
DisableAnimations ==
  /\ pc = "disableAnimations"
  /\ \E failed \in {"nothing", "addStyleTag", "evaluate"} :
       LET newDom == [dom EXCEPT !.styleTag = (failed # "addStyleTag"),
                                 !.timersPatched = (failed = "nothing")]
       IN IF failed = "nothing" THEN StabilizerDone("disableAnimations", newDom)
          ELSE StabilizerCatch("disableAnimations", newDom)
  /\ UNCHANGED <<args, i, results, browser, pages, progress, diffVars, pageVars, sideVars>>

\* await triggerLazyLoading(page, scrollDelay): read innerHeight, promote the
\* deferred attributes, scrollToBottom, scroll to the bottom and to the top,
\* wait for the remaining images
LazyCalls ==
  <<"innerHeight", "promote", "scrollToBottom", "scrollBottom", "scrollTop",
    "waitImages">>

TriggerLazyLoading ==
  /\ pc = "triggerLazyLoading"
  /\ \E failedAt \in 1..(Len(LazyCalls) + 1) :
       LET newDom == [dom EXCEPT !.lazyPromoted = (failedAt > 2),
                                 !.swept = (failedAt > 3)]
       IN IF failedAt > Len(LazyCalls)
            THEN StabilizerDone("triggerLazyLoading", newDom)
            ELSE StabilizerCatch("triggerLazyLoading", newDom)
  /\ UNCHANGED <<args, i, results, browser, pages, progress, diffVars, pageVars, sideVars>>

\* await maskVideos(page, options.videoMaskColor)
MaskVideos ==
  /\ pc = "maskVideos"
  /\ \E ok \in BOOLEAN :
       LET newDom == [dom EXCEPT !.masked = ok]
       IN IF ok THEN StabilizerDone("maskVideos", newDom)
          ELSE StabilizerCatch("maskVideos", newDom)
  /\ UNCHANGED <<args, i, results, browser, pages, progress, diffVars, pageVars, sideVars>>

\* The final stabilization check: await page.evaluate(...); then the first
\* page.screenshot is called
StabilityCheck ==
  /\ pc = "stability"
  /\ \E ok \in BOOLEAN :
       IF ok
         THEN /\ UNCHANGED <<dom, warnings>>
              /\ ProceedInPage("screenshot")
         ELSE ProcessPageThrow("stability", ProtocolError)
  /\ UNCHANGED <<args, i, results, browser, pages, progress, diffVars, pageVars, sideVars>>

\* try { await page.screenshot(...) } catch { wait 1000 ms;
\* page.evaluate(() => window.scrollTo(0, 0)) is called
Screenshot ==
  /\ pc = "screenshot"
  /\ \E ok \in BOOLEAN :
       IF ok
         THEN ProcessPageReturn
         ELSE /\ UNCHANGED <<dom, warnings>>
              /\ ProceedInPage("retryScroll")
  /\ UNCHANGED <<args, i, results, browser, pages, progress, diffVars, pageVars, sideVars>>

\* catch: await page.evaluate(() => window.scrollTo(0, 0)); then the second
\* page.screenshot is called
RetryScroll ==
  /\ pc = "retryScroll"
  /\ \E ok \in BOOLEAN :
       IF ok
         THEN /\ UNCHANGED <<dom, warnings>>
              /\ ProceedInPage("retryScreenshot")
         ELSE ProcessPageThrow("retryScroll", ProtocolError)
  /\ UNCHANGED <<args, i, results, browser, pages, progress, diffVars, pageVars, sideVars>>

\* catch: the second await page.screenshot(...)
RetryScreenshot ==
  /\ pc = "retryScreenshot"
  /\ \E ok \in BOOLEAN :
       IF ok THEN ProcessPageReturn
       ELSE ProcessPageThrow("retryScreenshot", ProtocolError)
  /\ UNCHANGED <<args, i, results, browser, pages, progress, diffVars, pageVars, sideVars>>

\* ---- the rest of the try block ------------------------------------------
\* await page.close(); then generateDiff(...) is called
ClosePage ==
  /\ pc = "close"
  /\ \E ok \in BOOLEAN :
       IF ok
         THEN /\ openPages' = openPages \ {page}
              /\ UNCHANGED <<page, nextPageId>>
              /\ pc' = "generateDiff"
              /\ pairLog' = Append(pairLog, <<"diff", "start">>)
              /\ dom' = FreshDom
              /\ UNCHANGED <<type, error, thrower, capLog, shots, warnings>>
         ELSE /\ UNCHANGED pages
              /\ Throw("close", ProtocolError)
  /\ UNCHANGED <<args, i, results, browser, progress, diffVars, pageVars, sideVars>>

\* A faulty variant: the loop index is reported as it is
UpdateProgress_zeroBased == progress' = Append(progress, <<i, Len(urlPairs)>>)

\* overallProgress.update(i + 1, ...) on the bar created with
\* createProgressBar(urlPairs.length, ...)
UpdateProgress == progress' = Append(progress, <<i + 1, Len(urlPairs)>>)

\* const diffResult = await generateDiff(...); overallProgress.update(i + 1);
\* results.push({...})
DiffPair ==
  /\ pc = "generateDiff"
  /\ \E in \in RunDiffInputs : \E resized \in ResizeOutputs(in) :
       LET diffResult == generateDiff(in, resized)
       IN IF diffResult.threw
            THEN /\ Throw("generateDiff", diffResult.error)
                 /\ UNCHANGED <<i, results, progress>>
            ELSE /\ UpdateProgress
                 /\ results' = Append(results, SuccessResult(i, urlPairs[i + 1], diffResult))
                 /\ i' = i + 1
                 /\ pc' = "loop"
                 /\ pairLog' = Append(pairLog, <<"diff", "end">>)
                 /\ UNCHANGED <<type, error, thrower, capture>>
  /\ UNCHANGED <<args, browser, pages, diffVars, pageVars, sideVars>>

\* catch (error) { overallProgress.update(i + 1); results.push({...}) }
CatchPair ==
  /\ pc = "catch"
  /\ UpdateProgress
  /\ results' = Append(results, ErrorResult(i, urlPairs[i + 1], error))
  /\ i' = i + 1
  /\ pc' = "loop"
  /\ error' = ""
  /\ thrower' = None
  /\ UNCHANGED <<args, type, browser, pages, capture, pairLog, diffVars, pageVars, sideVars>>

\* A faulty variant: the report is written with the browser still running
BrowserClose_leavesOpen ==
  /\ pc = "browserClose"
  /\ browser' = browser
  /\ Proceed("generateReport")
  /\ UNCHANGED <<args, i, results, pages, capture, progress, diffVars, pageVars, sideVars>>

\* await browser.close()
BrowserClose ==
  /\ pc = "browserClose"
  /\ \E ok \in BOOLEAN :
       IF ok THEN browser' = "closed" /\ Proceed("generateReport")
       ELSE browser' = browser /\ Reject("browserClose", ProtocolError)
  /\ UNCHANGED <<args, i, results, pages, capture, progress, diffVars, pageVars, sideVars>>

\* const reportPath = await generateReport(results, outputDir)
GenerateReport ==
  /\ pc = "generateReport"
  /\ \E ok \in BOOLEAN :
       IF ok THEN Proceed("open")
       ELSE Reject("generateReport", "EACCES: permission denied")
  /\ UNCHANGED <<args, i, results, browser, pages, capture, progress, diffVars, pageVars, sideVars>>

\* if (options.open !== false) { await import("open"); await open(reportPath) }
\* options.open is read here and nowhere else in runVRT
OpenReport ==
  /\ pc = "open"
  /\ \E wanted \in BOOLEAN, ok \in BOOLEAN :
       IF ~wanted \/ ok THEN Proceed("done") ELSE Reject("open", "spawn failed")
  /\ UNCHANGED <<args, i, results, browser, pages, capture, progress, diffVars, pageVars, sideVars>>

Next ==
  \/ MainAction
  \/ Mkdir \/ Launch \/ LoopHead \/ NewPage \/ SetUserAgent \/ SetViewport
  \/ Goto \/ DisableAnimations \/ TriggerLazyLoading \/ MaskVideos
  \/ StabilityCheck \/ Screenshot \/ RetryScroll \/ RetryScreenshot
  \/ ClosePage \/ DiffPair \/ CatchPair \/ BrowserClose \/ GenerateReport
  \/ OpenReport

Spec == Init /\ [][Next]_vars

\* ---- generateDiff on its own --------------------------------------------
RunIdle ==
  /\ urls = <<>>
  /\ exitCode = <<>>
  /\ urlPairs = <<[before |-> "https://a.test/x", after |-> "https://b.test/y"]>>
  /\ options = [disableAnimations |-> TRUE, lazyLoading |-> TRUE, maskVideos |-> TRUE]
  /\ pc = "idle"
  /\ i = 0
  /\ type = None
  /\ results = <<>>
  /\ browser = "none"
  /\ page = 0
  /\ openPages = {}
  /\ nextPageId = 0
  /\ dom = FreshDom
  /\ capLog = <<>>
  /\ pairLog = <<>>
  /\ shots = 0
  /\ error = ""
  /\ thrower = None
  /\ warnings = {}
  /\ progress = <<>>

InitDiff ==
  /\ RunIdle
  /\ PageIdle
  /\ SideIdle
  /\ dpc = "call"
  /\ dIn \in DiffInputs
  /\ dOut = DiffThrow("")

\* await generateDiff(beforePath, afterPath, diffPath) settles
DiffCall ==
  /\ dpc = "call"
  /\ \E resized \in ResizeOutputs(dIn) : dOut' = generateDiff(dIn, resized)
  /\ dpc' = "settled"
  /\ UNCHANGED <<dIn, runVars, pageVars, sideVars>>

NextDiff == DiffCall

SpecDiff == InitDiff /\ [][NextDiff]_vars

\* =========================================================================
\* Properties of runVRT
\* =========================================================================

\* The awaits of processPage
CaptureSteps ==
  {"goto", "disableAnimations", "triggerLazyLoading", "maskVideos",
   "stability", "screenshot", "retryScroll", "retryScreenshot"}

\* The awaits of one pair (the body of the for loop)
PairSteps ==
  {"newPage", "setUserAgent", "setViewport", "close", "generateDiff"}
    \cup CaptureSteps

HasError(r) == "error" \in DOMAIN r /\ r.error # ""

HasMetrics(r) ==
  {"beforeImage", "afterImage", "diffImage", "pixelDiff", "diffPercentage"}
    \subseteq DOMAIN r

\* C1: whenever a step of pair i throws, runVRT appends
\* {id, beforeUrl, afterUrl, error} for pair i and goes on with pair i+1:
\* an exception of a pair step always lands in the catch block, the catch
\* block appends the error result and returns to the loop head, the loop head
\* starts the next pair while one is left, and runVRT is only ever rejected by
\* a step outside the loop.
C1_FailureIsolated ==
  /\ [](pc = "rejected" => thrower \notin PairSteps)
  /\ [][ /\ (pc \in PairSteps /\ thrower' # None) =>
              (pc' = "catch" /\ thrower' = pc /\ i' = i /\ results' = results)
         /\ (pc = "catch") =>
              /\ results' = Append(results,
                   [id |-> "pair-" \o ToString(i + 1),
                    beforeUrl |-> urlPairs[i + 1].before,
                    afterUrl |-> urlPairs[i + 1].after,
                    error |-> error])
              /\ i' = i + 1
              /\ pc' = "loop"
         /\ (pc = "loop" /\ i < Len(urlPairs)) => pc' = "newPage"
       ]_vars

\* C1: the first pair failed at navigation and the second pair is captured
C1_Witness ==
  /\ Len(results) = 1
  /\ HasError(results[1])
  /\ results[1].error = NavigationError
  /\ i = 1
  /\ pc = "screenshot"

\* C2: when runVRT reaches report generation the result list has one entry
\* per input pair, the k-th entry has id pair-k and the URLs of the k-th input
\* pair, and the ids are pairwise distinct.
C2_ResultsFollowInput ==
  pc \in {"generateReport", "open", "done"} =>
    /\ Len(results) = Len(urlPairs)
    /\ \A k \in 1..Len(results) :
         /\ results[k].id = "pair-" \o ToString(k)
         /\ results[k].beforeUrl = urlPairs[k].before
         /\ results[k].afterUrl = urlPairs[k].after
    /\ \A j, k \in 1..Len(results) : j # k => results[j].id # results[k].id

\* C2: a batch of two pairs, the first succeeding and the second failing,
\* reaches report generation
C2_Witness ==
  /\ pc = "generateReport"
  /\ Len(urlPairs) = 2
  /\ Len(results) = 2
  /\ HasMetrics(results[1])
  /\ HasError(results[2])

\* C3: every result appended by runVRT carries exactly one of the metric set
\* (image paths, pixel count, percentage) and a non-empty error string.
C3_MetricsXorError ==
  \A k \in 1..Len(results) : HasMetrics(results[k]) # HasError(results[k])

\* C3: a failed pair followed by a pair with differing pixels
C3_Witness ==
  /\ Len(results) = 2
  /\ HasError(results[1]) /\ ~HasMetrics(results[1])
  /\ HasMetrics(results[2]) /\ ~HasError(results[2])
  /\ results[2].pixelDiff > 0

\* The events of one pair, in the order the source awaits them
PairEvents ==
  << <<"before", "start">>, <<"before", "end">>, <<"after", "start">>,
     <<"after", "end">>, <<"diff", "start">>, <<"diff", "end">> >>

IsPrefix(s, t) == Len(s) <= Len(t) /\ \A k \in 1..Len(s) : s[k] = t[k]

\* C4: within a pair the before capture ends before the after capture starts
\* and the after capture ends before the diff starts; the events of a pair
\* never interleave.
C4_BeforeAfterDiff ==
  /\ IsPrefix(pairLog, PairEvents)
  /\ (pc \in CaptureSteps /\ type = "before") => pairLog = SubSeq(PairEvents, 1, 1)
  /\ (pc \in CaptureSteps /\ type = "after") => pairLog = SubSeq(PairEvents, 1, 3)
  /\ pc = "close" => pairLog = SubSeq(PairEvents, 1, 4)
  /\ pc = "generateDiff" => pairLog = SubSeq(PairEvents, 1, 5)

\* C4: a pair went through both captures and its diff
C4_Witness == pc = "loop" /\ pairLog = PairEvents /\ i = 1

\* The state of the k-th pair (1-based)
PairState(k) ==
  IF k <= Len(results)
    THEN (IF "error" \in DOMAIN results[k] THEN "failed" ELSE "done")
  ELSE IF k # i + 1 THEN "pending"
  ELSE IF pc = "catch" THEN "failed"
  ELSE IF pc \in CaptureSteps
    THEN (IF type = "before" THEN "capturing-before" ELSE "capturing-after")
  ELSE IF pc = "close" THEN "capturing-after"
  ELSE IF pc = "generateDiff" THEN "diffing"
  ELSE "pending"

PairMoves ==
  { <<"pending", "capturing-before">>, <<"capturing-before", "capturing-after">>,
    <<"capturing-after", "diffing">>, <<"diffing", "done">> }
  \cup { <<s, "failed">> :
           s \in {"pending", "capturing-before", "capturing-after", "diffing"} }

\* C5: each pair only moves pending -> capturing-before -> capturing-after ->
\* diffing -> done, or from one of these to failed; a pair whose step threw is
\* failed at once (so no later step of it starts), the diff only starts after
\* both captures ended, and done and failed are never left.
C5_PairStateMachine ==
  [][ /\ \A k \in 1..Len(urlPairs) :
           \/ PairState(k)' = PairState(k)
           \/ <<PairState(k), PairState(k)'>> \in PairMoves
      /\ (thrower' # None /\ pc' # "rejected") => PairState(i + 1)' = "failed"
      /\ PairState(i + 1)' = "diffing" =>
           /\ \E n \in 1..Len(pairLog') : pairLog'[n] = <<"before", "end">>
           /\ \E n \in 1..Len(pairLog') : pairLog'[n] = <<"after", "end">>
    ]_vars

\* C5: the first pair is done and the second failed during its after capture
C5_Witness ==
  /\ Len(urlPairs) = 2
  /\ PairState(1) = "done"
  /\ PairState(2) = "failed"
  /\ pc = "catch"
  /\ type = "after"

\* =========================================================================
\* Properties of processPage and the stabilizers
\* =========================================================================

\* C6: when the screenshot of a URL fails it is retried exactly once (after
\* the delay and the scroll to the top), and it is never attempted more than
\* twice: a capture that fails after its first screenshot failed has made two
\* screenshot attempts.
C6_RetriedExactlyOnce ==
  /\ shots <= 2
  /\ (pc = "catch" /\ thrower \in {"retryScroll", "retryScreenshot"}) => shots = 2

Stabilizers == {"disableAnimations", "triggerLazyLoading", "maskVideos"}

\* C7: no stabilizer propagates an exception to processPage: the step that
\* follows a stabilizer is always the next step of the same capture, never the
\* catch block, and the exception that reaches the catch block never comes
\* from a stabilizer.
C7_StabilizersNeverThrow ==
  /\ [](thrower \notin Stabilizers)
  /\ [][ (pc \in Stabilizers) =>
           ( /\ pc' \in (CaptureSteps \ {"goto", pc})
             /\ thrower' = None
             /\ type' = type
             /\ i' = i )
       ]_vars

\* C7: all three stabilizers failed and the capture is at its screenshot
C7_Witness ==
  /\ warnings = Stabilizers
  /\ pc = "screenshot"
  /\ thrower = None

\* Position of a call in capLog, 0 when it was not made
RECURSIVE IndexIn(_, _, _)
IndexIn(log, call, n) ==
  IF n = 0 THEN 0
  ELSE IF log[n] = call THEN n
  ELSE IndexIn(log, call, n - 1)

CallIndex(call) == IndexIn(capLog, call, Len(capLog))

CallCount(call) == Cardinality({n \in 1..Len(capLog) : capLog[n] = call})

Ordered(first, second) ==
  (CallIndex(first) > 0 /\ CallIndex(second) > 0) => CallIndex(first) < CallIndex(second)

\* C8: in every capture the stabilizers run in the order animation
\* suppression, lazy-load forcing, masking; all after navigation and before
\* the screenshot; none runs twice; and the enabled ones have all run when the
\* screenshot is taken.
C8_StabilizerOrder ==
  /\ Ordered("disableAnimations", "triggerLazyLoading")
  /\ Ordered("triggerLazyLoading", "maskVideos")
  /\ Ordered("disableAnimations", "maskVideos")
  /\ \A s \in Stabilizers :
       /\ CallCount(s) <= 1
       /\ Ordered("goto", s)
       /\ CallIndex(s) > 0 => CallIndex("goto") = 1
       /\ Ordered(s, "screenshot")
       /\ Ordered(s, "stability")
  /\ pc = "screenshot" =>
       /\ options.disableAnimations => CallCount("disableAnimations") = 1
       /\ options.lazyLoading => CallCount("triggerLazyLoading") = 1
       /\ options.maskVideos => CallCount("maskVideos") = 1

\* C8: a capture with all three stabilizers enabled is at its screenshot
C8_Witness ==
  /\ pc = "screenshot"
  /\ type = "after"
  /\ capLog = <<"goto", "disableAnimations", "triggerLazyLoading", "maskVideos",
                "stability", "screenshot">>

\* What a stabilizer leaves in the document
Touched(s) ==
  CASE s = "disableAnimations" -> dom.styleTag \/ dom.timersPatched
    [] s = "triggerLazyLoading" -> dom.lazyPromoted \/ dom.swept
    [] s = "maskVideos" -> dom.masked

Switch(s) ==
  CASE s = "disableAnimations" -> options.disableAnimations
    [] s = "triggerLazyLoading" -> options.lazyLoading
    [] s = "maskVideos" -> options.maskVideos

\* C9: a stabilizer whose option is false is never invoked and leaves nothing
\* in the document (no style tag, no promotion or sweep, no overlay), while
\* the stabilizers whose option is not false have been invoked when the
\* screenshot is taken.
C9_DisabledUntouched ==
  \A s \in Stabilizers :
    /\ ~Switch(s) => (pc # s /\ CallCount(s) = 0 /\ ~Touched(s) /\ s \notin warnings)
    /\ (Switch(s) /\ pc = "screenshot") => CallIndex(s) > 0

\* C9: animation suppression is switched off, the other two have acted
C9_Witness ==
  /\ ~options.disableAnimations
  /\ options.lazyLoading /\ options.maskVideos
  /\ pc = "screenshot"
  /\ ~dom.styleTag /\ ~dom.timersPatched
  /\ dom.lazyPromoted /\ dom.swept /\ dom.masked

\* =========================================================================
\* Properties of generateDiff
\* =========================================================================

\* C10: for two readable images whose width or height differ (the diff file
\* being writable), generateDiff does not throw and returns a result with a
\* non-empty sizeWarning.
C10_MismatchNeverThrows ==
  ( /\ dpc = "settled"
    /\ dIn.readable
    /\ dIn.writable
    /\ (dIn.before.width # dIn.after.width \/ dIn.before.height # dIn.after.height) )
  => ( /\ ~dOut.threw
       /\ dOut.sizeWarning # "null"
       /\ dOut.sizeWarning # "" )

\* C11: when the two (readable) images differ in dimensions and resampling
\* the after image is unavailable or fails (the diff file being writable),
\* generateDiff pads both images to the element-wise maximum width and height
\* and completes the comparison on the padded images instead of failing.
C11_PaddingFallback ==
  ( /\ dpc = "settled"
    /\ dIn.readable
    /\ dIn.writable
    /\ (dIn.before.width # dIn.after.width \/ dIn.before.height # dIn.after.height)
    /\ dIn.sharp \in {"missing", "rejects"} )
  => ( /\ ~dOut.threw
       /\ dOut.strategy = "padded"
       /\ dOut.width = Max(dIn.before.width, dIn.after.width)
       /\ dOut.height = Max(dIn.before.height, dIn.after.height)
       /\ dOut.lenBefore = dOut.width * dOut.height
       /\ dOut.lenAfter = dOut.width * dOut.height )

\* The text of h hundredths of a percent
PercentText(h) ==
  ToString(h \div 100) \o "." \o (IF h % 100 < 10 THEN "0" ELSE "") \o ToString(h % 100)

\* h / 100 is a two-decimal value nearest to k / n * 100
NearestHundredth(h, k, n) == 2 * Abs(k * 10000 - h * n) <= n

\* The size of the buffers generateDiff compares for its arguments
ComparedWidth ==
  IF SameSize(dIn.before, dIn.after) \/ dIn.sharp = "resolves"
    THEN dIn.before.width ELSE Max(dIn.before.width, dIn.after.width)

ComparedHeight ==
  IF SameSize(dIn.before, dIn.after) \/ dIn.sharp = "resolves"
    THEN dIn.before.height ELSE Max(dIn.before.height, dIn.after.height)

\* C12: the diffPercentage generateDiff returns is pixelDiff / (width * height)
\* * 100 rounded to two decimals, width x height being the size of the buffers
\* compared (the before image's size when the sizes match or the after image
\* was resampled, the element-wise maximum when padded) and pixelDiff the
\* number of pixels counted as different; it lies between 0.00 and 100.00.
C12_PercentageRounded ==
  (dpc = "settled" /\ ~dOut.threw) =>
    /\ dOut.width = ComparedWidth
    /\ dOut.height = ComparedHeight
    /\ dOut.lenBefore = dOut.width * dOut.height
    /\ dOut.lenAfter = dOut.width * dOut.height
    /\ dOut.pixelDiff \in 0..(dOut.width * dOut.height)
    /\ SameSize(dIn.before, dIn.after) =>
         dOut.pixelDiff =
           Cardinality({ k \in 1..(dOut.width * dOut.height) :
                           Abs(dIn.before.data[k] - dIn.after.data[k]) > ColorThreshold })
    /\ \E h \in 0..10000 :
         /\ NearestHundredth(h, dOut.pixelDiff, dOut.width * dOut.height)
         /\ dOut.diffPercentage = PercentText(h)

\* C12: two of three compared pixels differ
C12_Witness ==
  /\ dpc = "settled"
  /\ ~dOut.threw
  /\ dOut.pixelDiff = 2
  /\ dOut.width * dOut.height = 3
  /\ dOut.diffPercentage = "66.67"

\* C13: for two byte-identical (readable) images, the diff file being
\* writable, generateDiff returns pixelDiff = 0, diffPercentage = "0.00" and
\* no size warning.
C13_IdenticalImages ==
  (dpc = "settled" /\ dIn.readable /\ dIn.writable /\ dIn.before = dIn.after) =>
    /\ ~dOut.threw
    /\ dOut.pixelDiff = 0
    /\ dOut.diffPercentage = "0.00"
    /\ dOut.sizeWarning = "null"

\* C13: a three-pixel image compared with itself
C13_Witness ==
  /\ dpc = "settled"
  /\ dIn.readable /\ dIn.writable
  /\ dIn.before = dIn.after
  /\ dIn.before.data = <<255, 0, 255>>
  /\ ~dOut.threw
  /\ dOut.pixelDiff = 0

\* =========================================================================
\* Properties of the main command
\* =========================================================================

BadUrlCount == Len(urls) < 2 \/ Len(urls) % 2 = 1

\* C14: with an odd number of URLs or fewer than two the CLI exits with a
\* non-zero code before a directory is created, the browser is launched or a
\* pair is processed; with an even number of at least two, runVRT is started
\* with count / 2 pairs, the k-th (1-based) being (urls[2k-1], urls[2k]).
C14_UsageCheck ==
  /\ BadUrlCount =>
       /\ pc \in {"main", "exited"}
       /\ urlPairs = <<>>
       /\ browser = "none"
       /\ nextPageId = 0
       /\ results = <<>>
       /\ progress = <<>>
  /\ pc = "exited" => (BadUrlCount /\ Len(exitCode) = 1 /\ exitCode[1] # 0)
  /\ (~BadUrlCount /\ pc # "main") =>
       /\ exitCode = <<>>
       /\ urlPairs \in UrlPairLists
       /\ Len(urlPairs) * 2 = Len(urls)
       /\ \A k \in 1..Len(urlPairs) :
            urlPairs[k] = [before |-> urls[2 * k - 1], after |-> urls[2 * k]]

\* C14: three URLs were given and the process has exited with code 1
C14_Witness ==
  /\ Len(urls) = 3
  /\ pc = "exited"
  /\ exitCode = <<1>>

\* =========================================================================
\* Properties of the pages of a run
\* =========================================================================

\* C15: at every point of a run at most one page (the concurrency bound of
\* the sequential design, --concurrency 1) has been opened and not yet
\* closed, whatever pairs succeed or fail.
C15_OnePageOpen == Cardinality(openPages) <= 1

\* The steps of a pair that use its page
PageSteps == (PairSteps \ {"newPage", "generateDiff"})

\* C16: each pair is captured on a page created for that pair: the page a
\* pair works on is the one browser.newPage() returned in that iteration, it
\* was never in use before, and it stays the same through the before and the
\* after capture of the pair.
C16_FreshPagePerPair ==
  /\ [](pc \in PageSteps => (page = nextPageId /\ page \in openPages))
  /\ [][ /\ (pc = "newPage" /\ pc' = "setUserAgent") =>
              /\ page' \notin 0..nextPageId
              /\ page' \notin openPages
              /\ nextPageId' = page'
         /\ pc # "newPage" => UNCHANGED <<page, nextPageId>>
       ]_vars

\* C16: the second pair takes its after capture on the second page
C16_Witness ==
  /\ i = 1
  /\ type = "after"
  /\ pc = "screenshot"
  /\ page = 2
  /\ Len(results) = 1

\* =========================================================================
\* In-page routines: scrollToBottom
\* =========================================================================

\* Bounds of the documents: lengths are in scroll units
MaxViewport == 3
MaxBelow == 6

\* scrollToBottom keeps scrollHeight and currentPosition; its loop reads them
\* only in the test currentPosition < scrollHeight, and currentPosition =
\* scrollNumber * viewportHeight advances by viewportHeight per iteration.
\* The state holds their difference: below = scrollHeight - currentPosition.
ScrollEnded == {"returned", "threw"}

\* let scrollHeight = await page.evaluate(getScrollHeight)
ReadScrollHeight ==
  /\ sc = "scrollHeight"
  /\ \E ok \in BOOLEAN, height \in 0..MaxBelow :
       IF ok THEN sc' = "while" /\ below' = height
       ELSE sc' = "threw" /\ below' = below
  /\ UNCHANGED <<viewportHeight, offScroll>>

\* while (currentPosition < scrollHeight)
WhileTest ==
  /\ sc = "while"
  /\ sc' = IF below > 0 THEN "scrollTo" ELSE "returned"
  /\ UNCHANGED <<viewportHeight, below, offScroll>>

\* scrollNumber += 1; await page.evaluate(window.scrollTo(0, nextPosition))
ScrollTo ==
  /\ sc = "scrollTo"
  /\ \E ok \in BOOLEAN : sc' = IF ok THEN "waitForFunction" ELSE "threw"
  /\ UNCHANGED <<viewportHeight, below, offScroll>>

\* await page.waitForFunction(..., { timeout: 1500 }).catch(() => {})
WaitForFunction ==
  /\ sc = "waitForFunction"
  /\ sc' = "rereadHeight"
  /\ UNCHANGED <<viewportHeight, below, offScroll>>

\* currentPosition = nextPosition;
\* scrollHeight = await page.evaluate(getScrollHeight): the document may have
\* grown by any amount since the last reading
RereadHeight ==
  /\ sc = "rereadHeight"
  /\ \E ok \in BOOLEAN, growth \in 0..MaxBelow :
       IF ok
         THEN /\ below + growth - viewportHeight <= MaxBelow
              /\ below' = below + growth - viewportHeight
              /\ sc' = "delay"
         ELSE sc' = "threw" /\ below' = below
  /\ UNCHANGED <<viewportHeight, offScroll>>

\* await new Promise(resolve => setTimeout(resolve, Math.min(scrollDelay, 200)))
ScrollDelay ==
  /\ sc = "delay"
  /\ sc' = "while"
  /\ UNCHANGED <<viewportHeight, below, offScroll>>

scrollToBottom ==
  \/ ReadScrollHeight \/ WhileTest \/ ScrollTo \/ WaitForFunction
  \/ RereadHeight \/ ScrollDelay

\* scrollToBottom(page, viewportHeight, scrollDelay) is called
ScrollCalled ==
  /\ sc = "scrollHeight"
  /\ viewportHeight \in 0..MaxViewport
  /\ below = 0

\* =========================================================================
\* disableAnimations: the wait at the end of its in-page script
\* =========================================================================

MaxAnimations == 2

\* const maxChecks = 20
maxChecks == 20

PollEnded == {"resolved"}

\* The test of checkAnimations without its second half
CheckDone_idleOnly(runningAnimations, count) == runningAnimations = 0

\* if (runningAnimations.length === 0 || checkCount >= maxChecks)
CheckDone(runningAnimations, count) ==
  runningAnimations = 0 \/ count >= maxChecks

\* checkAnimations, run by the timer of setTimeout(checkAnimations, 100) or
\* setTimeout(checkAnimations, 50): checkCount++, count the animations whose
\* playState is "running" (the page decides how many), then either
\* setTimeout(resolve, 200) or setTimeout(checkAnimations, 50).
\* The guard on checkCount closes the counter's range.
CheckAnimations ==
  /\ pollPc = "checkAnimations"
  /\ checkCount <= maxChecks
  /\ \E runningAnimations \in 0..MaxAnimations :
       /\ checkCount' = checkCount + 1
       /\ running' = runningAnimations
       /\ pollPc' = IF CheckDone(runningAnimations, checkCount + 1)
                      THEN "resolve" ELSE "checkAnimations"
  /\ UNCHANGED <<scriptVars, offPoll>>

\* The timer of setTimeout(resolve, 200) fires
ResolveWait ==
  /\ pollPc = "resolve"
  /\ pollPc' = "resolved"
  /\ UNCHANGED <<checkCount, running, scriptVars, offPoll>>

AnimationWait == CheckAnimations \/ ResolveWait

\* return new Promise(resolve => { let checkCount = 0; ...;
\* setTimeout(checkAnimations, 100) })
PollStarted ==
  /\ pollPc = "checkAnimations"
  /\ checkCount = 0
  /\ running = 0

\* =========================================================================
\* triggerLazyLoading: the final wait for the images that are not complete
\* =========================================================================

MaxImages == 2

\* The clock of the page advances in steps of TickMs milliseconds
TickMs == 500

\* const timeout = setTimeout(resolve, 1500)
ImageTimeoutMs == 1500

\* new Promise((resolve) => setTimeout(resolve, 2000))
GlobalTimeoutMs == 2000

\* The promise of an image is resolved by onload, by onerror or by its timer
ImageSettled == {"loaded", "errored", "timedOut"}

Awaited == DOMAIN images

\* Promise.race in place of Promise.all over the images
RaceSettles_firstImage ==
  \/ \E k \in Awaited : images[k] \in ImageSettled
  \/ globalFired

\* Promise.race([Promise.all(images.slice(0, 10).map(...)), <global timer>]);
\* with no image left, Promise.resolve()
RaceSettles ==
  \/ \A k \in Awaited : images[k] \in ImageSettled
  \/ globalFired

\* The reaction of a settled promise is a microtask: it runs before the next
\* timer or image event
RacePending == wait = "pending" /\ RaceSettles

\* The promise returned to page.evaluate resolves
RaceResolves ==
  /\ RacePending
  /\ wait' = "resolved"
  /\ UNCHANGED <<images, now, globalFired, offImages>>

\* img.onload or img.onerror: clearTimeout(timeout); resolve()
ImageEvent ==
  /\ wait # "idle"
  /\ ~RacePending
  /\ \E k \in Awaited, event \in {"loaded", "errored"} :
       /\ images[k] = "pending"
       /\ images' = [images EXCEPT ![k] = event]
  /\ UNCHANGED <<now, globalFired, wait, offImages>>

\* The timer of an image that fired neither load nor error
ImageTimer ==
  /\ wait # "idle"
  /\ ~RacePending
  /\ \E k \in Awaited :
       /\ images[k] = "pending"
       /\ now >= ImageTimeoutMs
       /\ images' = [images EXCEPT ![k] = "timedOut"]
  /\ UNCHANGED <<now, globalFired, wait, offImages>>

\* The timer of the global timeout
GlobalTimer ==
  /\ wait # "idle"
  /\ ~RacePending
  /\ ~globalFired
  /\ now >= GlobalTimeoutMs
  /\ globalFired' = TRUE
  /\ UNCHANGED <<images, now, wait, offImages>>

\* Time passes once every timer that is due has fired
TimePasses ==
  /\ wait # "idle"
  /\ ~RacePending
  /\ now < GlobalTimeoutMs
  /\ \A k \in Awaited : images[k] = "pending" => now < ImageTimeoutMs
  /\ now' = now + TickMs
  /\ UNCHANGED <<images, globalFired, wait, offImages>>

ImageWait ==
  \/ RaceResolves \/ ImageEvent \/ ImageTimer \/ GlobalTimer \/ TimePasses

\* page.evaluate of the final wait is called: the images that passed the
\* filter !img.complete || !img.naturalWidth (at most 10 are awaited)
ImageWaitCalled ==
  /\ images \in UNION { [1..n -> {"pending"}] : n \in 0..MaxImages }
  /\ now = 0
  /\ globalFired = FALSE
  /\ wait = "pending"

\* =========================================================================
\* disableAnimations: the script run by page.evaluate
\* =========================================================================

\* The libraries the script looks for in window
KnownLibraries == {"jQuery", "gsap", "anime", "Velocity", "AOS"}

\* The top-level statements of the script, in source order
Script ==
  <<"saveOriginals", "patchTimers", "stopWebAnimations", "returnPromise",
    "disableLibraries", "blockAnimationEvents", "forceLayout">>

ScriptReturned == ip > Len(Script)

\* One top-level statement of the script runs. return new Promise(...) ends
\* the function with the promise whose executor arms the first
\* setTimeout(checkAnimations, 100); the statements of the other branches are
\* the ones written in the source at their position.
ScriptStatement ==
  /\ routine = "evaluate"
  /\ ~ScriptReturned
  /\ LET statement == Script[ip]
     IN /\ ip' = IF statement = "returnPromise" THEN Len(Script) + 1 ELSE ip + 1
        /\ patched' = (patched \/ statement = "patchTimers")
        /\ disabled' = IF statement = "disableLibraries" THEN libs ELSE disabled
        /\ pollPc' = IF statement = "returnPromise" THEN "checkAnimations" ELSE pollPc
  /\ UNCHANGED <<libs, checkCount, running, offPoll>>

\* page.evaluate(() => { ... }) is called on a page with some of the libraries
EvaluateCalled ==
  /\ ip = 1
  /\ libs \in SUBSET KnownLibraries
  /\ disabled = {}
  /\ patched = FALSE

\* =========================================================================
\* disableAnimations: the replaced window.setTimeout and window.setInterval
\* =========================================================================

\* if (delay < 100)
AnimationDelayMs == 100

\* delay = 10000
SlowIntervalMs == 10000

\* A delay argument is <<>> when the caller omits it (undefined in the
\* script) and <<ms>> otherwise
Delays ==
  { <<>>, <<0>>, <<AnimationDelayMs - 1>>, <<AnimationDelayMs>>,
    <<AnimationDelayMs + 1>> }

Callbacks == {"tick", "draw"}

ArgLists == { <<>>, <<"a">>, <<"a", "b">> }

\* The delay the timer runs with: a missing delay counts as 0
EffectiveMs(delay) == IF delay = <<>> THEN 0 ELSE delay[1]

\* delay < 100 as the script evaluates it: undefined < 100 is false
Below100(delay) == delay # <<>> /\ delay[1] < AnimationDelayMs

\* window.setTimeout = (callback, delay, ...args) => {
\*   if (delay < 100) delay = 0;
\*   return originalSetTimeout(callback, delay, ...args) }
PatchedSetTimeout(callback, delay, extra) ==
  [fn |-> "setTimeout", callback |-> callback,
   delay |-> IF Below100(delay) THEN <<0>> ELSE delay, args |-> extra]

\* window.setInterval = (callback, delay, ...args) => {
\*   if (delay < 100) delay = 10000;
\*   return originalSetInterval(callback, delay, ...args) }
PatchedSetInterval(callback, delay, extra) ==
  [fn |-> "setInterval", callback |-> callback,
   delay |-> IF Below100(delay) THEN <<SlowIntervalMs>> ELSE delay, args |-> extra]

\* A script of the page calls window.setTimeout or window.setInterval after
\* they were replaced; nativeCall is the call the original function receives
PageSetsTimer ==
  /\ routine = "timers"
  /\ patched
  /\ \E fn \in {"setTimeout", "setInterval"}, callback \in Callbacks,
        delay \in Delays, extra \in ArgLists :
       /\ timerCall' = <<[fn |-> fn, callback |-> callback, delay |-> delay,
                          args |-> extra]>>
       /\ nativeCall' = IF fn = "setTimeout"
                          THEN <<PatchedSetTimeout(callback, delay, extra)>>
                          ELSE <<PatchedSetInterval(callback, delay, extra)>>
  /\ UNCHANGED offTimers

\* The script of disableAnimations has run on a page without libraries
ScriptDone ==
  /\ ip = Len(Script) + 1
  /\ libs = {}
  /\ disabled = {}
  /\ patched = TRUE

TimersIdle == timerCall = <<>> /\ nativeCall = <<>>

\* =========================================================================
\* maskVideos: the script run by page.evaluate, on a page with one <video>
\* =========================================================================

RenderedSizes == {0, 640}

ClassNames == {"hero", "video-js", "vjs-tech", "video-player"}

\* const videoPlayerSelectors = [...]
VideoPlayerSelectors ==
  {"video-js", "vjs-tech", "plyr", "jwplayer", "fp-player", "flowplayer",
   "mediaelement", "mejs-container", "video-react-video", "react-player",
   "shaka-video-container", "videojs-player"}

\* The <video> elements a page can hold: rendered size, class list,
\* data-video attribute, a video file named in the style attribute
VideoElements ==
  [width : RenderedSizes, height : RenderedSizes, classes : SUBSET ClassNames,
   dataVideo : BOOLEAN, styleNamesVideo : BOOLEAN]

\* The passes of the script, in source order
MaskPasses ==
  <<"videos", "iframes", "backgrounds", "canvases", "mediaElements", "players">>

\* createMask(element, label): nothing for an element of zero width or
\* height, else one overlay with data-vrt-mask appended to document.body
createMask(element, label) ==
  IF element.width = 0 \/ element.height = 0 THEN <<>> ELSE <<label>>

\* How many times a pass calls createMask for the <video> element, and the
\* label it uses
MaskLabels(pass, element) ==
  CASE pass = "videos" -> <<"VIDEO 1">>
    [] pass = "iframes" -> <<>>
    [] pass = "backgrounds" ->
         IF element.styleNamesVideo THEN <<"BG VIDEO 1">> ELSE <<>>
    [] pass = "canvases" -> <<>>
    [] pass = "mediaElements" ->
         IF element.dataVideo \/ "video-player" \in element.classes
           THEN <<"MEDIA ELEMENT 1">> ELSE <<>>
    [] pass = "players" ->
         [k \in 1..Cardinality(element.classes \cap VideoPlayerSelectors)
            |-> "PLAYER 1"]

RECURSIVE MasksFor(_, _)
MasksFor(labels, element) ==
  IF labels = <<>> THEN <<>>
  ELSE createMask(element, Head(labels)) \o MasksFor(Tail(labels), element)

MaskingDone == mp > Len(MaskPasses)

\* One pass of the script runs over the document
MaskPass ==
  /\ routine = "maskVideos"
  /\ ~MaskingDone
  /\ masks' = masks \o MasksFor(MaskLabels(MaskPasses[mp], video), video)
  /\ mp' = mp + 1
  /\ UNCHANGED <<video, offMask>>

\* page.evaluate of maskVideos is called on a page with one <video> element
MaskCalled ==
  /\ video \in VideoElements
  /\ masks = <<>>
  /\ mp = 1

MaskIdle == video = None /\ masks = <<>> /\ mp = 0

\* =========================================================================
\* triggerLazyLoading: the calls it awaits, in order
\* =========================================================================

\* Scroll positions are counted in viewport heights; the sweep issues at
\* most MaxSweep scroll commands
MaxSweep == 2

LazyEnded == {"returned"}

ScrollCommand(position) == <<"scrollTo", position>>

\* const viewportHeight = await page.evaluate(() => window.innerHeight)
LazyInnerHeight ==
  /\ lz = "innerHeight"
  /\ \E ok \in BOOLEAN : lz' = IF ok THEN "promote" ELSE "caught"
  /\ UNCHANGED <<lazyLog, offLazy>>

\* await page.evaluate(<deferred attributes, synthetic events>), then the
\* stabilization timer
LazyPromote ==
  /\ lz = "promote"
  /\ \E ok \in BOOLEAN : lz' = IF ok THEN "scrollToBottom" ELSE "caught"
  /\ UNCHANGED <<lazyLog, offLazy>>

\* await scrollToBottom(page, viewportHeight, stableScrollDelay): it scrolls
\* to viewportHeight, 2 * viewportHeight, ... and returns once the position
\* has passed the height of the document, or throws after some of them
LazySweep ==
  /\ lz = "scrollToBottom"
  /\ \E ok \in BOOLEAN, n \in 0..MaxSweep :
       LET sweep == [k \in 1..n |-> ScrollCommand(k)]
       IN IF ok
            THEN /\ lz' = "scrollBottom"
                 /\ lazyLog' = lazyLog \o sweep \o <<<<"swept">>>>
            ELSE /\ lz' = "caught"
                 /\ lazyLog' = lazyLog \o sweep
  /\ UNCHANGED offLazy

\* await page.evaluate(() => { window.scrollTo({ top:
\* document.body.scrollHeight, ... }); ... }), then a 200 ms timer.  The
\* script throws when the document has no body.
LazyScrollBottom ==
  /\ lz = "scrollBottom"
  /\ \E ok \in BOOLEAN, height \in 0..MaxSweep :
       IF ok
         THEN /\ lz' = "scrollTop"
              /\ lazyLog' = Append(lazyLog, ScrollCommand(height))
         ELSE /\ lz' = "caught"
              /\ lazyLog' = lazyLog
  /\ UNCHANGED offLazy

\* await page.evaluate(() => window.scrollTo({ top: 0, behavior: "auto" })),
\* then a 200 ms timer
LazyScrollTop ==
  /\ lz = "scrollTop"
  /\ \E ok \in BOOLEAN :
       IF ok
         THEN /\ lz' = "waitImages"
              /\ lazyLog' = Append(lazyLog, ScrollCommand(0))
         ELSE /\ lz' = "caught"
              /\ lazyLog' = lazyLog
  /\ UNCHANGED offLazy

\* await page.evaluate(<wait for the remaining images>): the wait is begun,
\* and the call resolves or rejects
LazyWaitImages ==
  /\ lz = "waitImages"
  /\ lazyLog' = Append(lazyLog, <<"waitImages">>)
  /\ \E ok \in BOOLEAN : lz' = IF ok THEN "returned" ELSE "caught"
  /\ UNCHANGED offLazy

\* catch (error) { console.warn("    Stable lazy loading failed:", ...) }
LazyCatch ==
  /\ lz = "caught"
  /\ lz' = "returned"
  /\ lazyLog' = Append(lazyLog, <<"warn">>)
  /\ UNCHANGED offLazy

triggerLazyLoading ==
  \/ LazyInnerHeight \/ LazyPromote \/ LazySweep \/ LazyScrollBottom
  \/ LazyScrollTop \/ LazyWaitImages \/ LazyCatch

\* triggerLazyLoading(page, scrollDelay) is called
LazyCalled == lz = "innerHeight" /\ lazyLog = <<>>

\* ---- the in-page routines, one at a time --------------------------------
InitPage ==
  /\ RunIdle
  /\ DiffIdle
  /\ SideIdle
  /\ routine \in {"scrollToBottom", "checkAnimations", "waitImages", "evaluate",
                   "timers", "maskVideos", "triggerLazyLoading"}
  /\ IF routine = "scrollToBottom" THEN ScrollCalled ELSE ScrollIdle
  /\ IF routine = "checkAnimations" THEN PollStarted ELSE PollIdle
  /\ IF routine = "evaluate" THEN EvaluateCalled
     ELSE IF routine = "timers" THEN ScriptDone
     ELSE ScriptIdle
  /\ TimersIdle
  /\ IF routine = "maskVideos" THEN MaskCalled ELSE MaskIdle
  /\ IF routine = "waitImages" THEN ImageWaitCalled ELSE ImagesIdle
  /\ IF routine = "triggerLazyLoading" THEN LazyCalled ELSE LazyIdle

NextPage ==
  \/ scrollToBottom \/ AnimationWait \/ ImageWait \/ ScriptStatement
  \/ PageSetsTimer \/ MaskPass \/ triggerLazyLoading

\* Every await of these routines settles (each has its own timeout), and the
\* continuation that follows is run by the event loop.
SpecPage == InitPage /\ [][NextPage]_vars /\ WF_vars(NextPage)

\* C17: the scroll sweep of lazy-load forcing always terminates: whatever the
\* page does, including a document that grows after each scroll step,
\* scrollToBottom (called with a positive viewport height) ends after
\* finitely many scroll steps.
C17_SweepTerminates ==
  (routine = "scrollToBottom" /\ viewportHeight > 0) ~> (sc \in ScrollEnded)

\* C18: the in-page wait of animation suppression makes at most 20 checks and
\* then resolves whether or not animations are still running; it resolves as
\* soon as a check finds no running animation (and only after such a check or
\* the 20th one); and it never stays pending for ever.
C18_PollBounded ==
  /\ [](checkCount <= 20)
  /\ [](pollPc \in {"resolve", "resolved"} => (running = 0 \/ checkCount = 20))
  /\ [][ (checkCount' # checkCount /\ (running' = 0 \/ checkCount' = 20))
           => pollPc' = "resolve" ]_vars
  /\ (routine = "checkAnimations") ~> (pollPc \in PollEnded)

\* C18: the wait resolved after its 20th check with animations still running
C18_Witness ==
  /\ pollPc = "resolved"
  /\ checkCount = 20
  /\ running > 0

\* C19: the final image wait of lazy-load forcing completes as soon as every
\* awaited image has loaded, errored or hit its own timeout, or the global
\* timeout has fired, whichever comes first (and not before); it always
\* completes, and it is never pending after the global timeout.
C19_ImageWaitBounded ==
  /\ [](wait = "resolved" =>
          \/ \A k \in Awaited : images[k] \in {"loaded", "errored", "timedOut"}
          \/ globalFired)
  /\ [][ ( /\ wait = "pending"
           /\ \/ \A k \in Awaited : images[k] \in {"loaded", "errored", "timedOut"}
              \/ globalFired )
         => wait' = "resolved" ]_vars
  /\ [](wait = "pending" => (now <= GlobalTimeoutMs /\ ~globalFired))
  /\ (routine = "waitImages") ~> (wait = "resolved")

\* C19: an image that fired neither load nor error hit its timeout, another
\* one errored, and the wait is over
C19_Witness ==
  /\ wait = "resolved"
  /\ \E j, k \in Awaited : images[j] = "timedOut" /\ images[k] = "errored"

\* C20: when the script of animation suppression has run to its end (its
\* promise resolved) on a page that has known animation libraries in window,
\* each of these libraries has been disabled or paused.
C20_LibrariesDisabled ==
  (routine = "evaluate" /\ pollPc = "resolved") => libs \subseteq disabled

\* C21: once the timers are patched, a one-shot timer requested with a delay
\* below 100 ms is scheduled with delay 0, a repeating timer requested with a
\* delay below 100 ms is scheduled with 10000 ms, a timer requested with
\* 100 ms or more keeps its delay, and callback and extra arguments reach the
\* original function unchanged.
C21_TimerDelays ==
  (routine = "timers" /\ timerCall # <<>>) =>
    LET asked == timerCall[1]
        given == nativeCall[1]
    IN /\ given.fn = asked.fn
       /\ given.callback = asked.callback
       /\ given.args = asked.args
       /\ IF EffectiveMs(asked.delay) >= 100
            THEN EffectiveMs(given.delay) = EffectiveMs(asked.delay)
          ELSE IF asked.fn = "setTimeout"
            THEN EffectiveMs(given.delay) = 0
          ELSE EffectiveMs(given.delay) = 10000

\* C22: when masking has run on a page with one <video> element, the document
\* holds exactly one overlay with the masked-content marker if the element
\* has a non-zero rendered size, whatever its classes and attributes, and no
\* overlay if its rendered width or height is zero.
C22_OneOverlayPerVideo ==
  (routine = "maskVideos" /\ MaskingDone) =>
    Len(masks) = (IF video.width > 0 /\ video.height > 0 THEN 1 ELSE 0)

\* =========================================================================
\* The announcement of each pair (runVRT) and the summary of generateReport
\* =========================================================================

MaxResults == 2
MaxChanged == 2

\* .option("--width <number>", "viewport width", "1280")
DefaultWidth == 1280

\* .option("--height <number>", "viewport height", "720")
DefaultHeight == 720

\* width * height of the compared images: tiny ones and one screenshot of the
\* default viewport
ReportSizes == {1, 4, DefaultWidth * DefaultHeight}

\* What generateDiff returns for pixelDiff differing pixels out of totalPixels
DiffStats(pixelDiff, totalPixels) ==
  [pixelDiff |-> pixelDiff, diffPercentage |-> ToFixed2(pixelDiff, totalPixels),
   sizeWarning |-> "null"]

\* The outcomes of one pair: the message of the error caught, or the numbers
\* of its diff
PairOutcomes ==
  { [failed |-> TRUE, message |-> m, pixelDiff |-> 0, totalPixels |-> 1] :
      m \in {NavigationError, ProtocolError} }
  \cup
  { o \in [failed : {FALSE}, message : {""}, pixelDiff : 0..MaxChanged,
            totalPixels : ReportSizes] : o.pixelDiff <= o.totalPixels }

\* The result runVRT pushes for the pair of index idx with outcome o
ResultOf(idx, o) ==
  IF o.failed THEN ErrorResult(idx, PoolPair(idx + 1), o.message)
  ELSE SuccessResult(idx, PoolPair(idx + 1), DiffStats(o.pixelDiff, o.totalPixels))

ResultLists ==
  UNION { { [k \in 1..n |-> ResultOf(k - 1, outcomes[k])] :
              outcomes \in [1..n -> PairOutcomes] } : n \in 0..MaxResults }

\* !r.error is false: the result has an error property that is not ""
Truthy(r) == "error" \in DOMAIN r /\ r.error # ""

\* parseFloat(r.diffPercentage) in hundredths: <<>> stands for NaN (no
\* diffPercentage), else the number whose two-decimal text is the string
ParseFloat(r) ==
  IF "diffPercentage" \notin DOMAIN r THEN <<>>
  ELSE IF \E h \in 0..10000 : PercentText(h) = r.diffPercentage
    THEN <<CHOOSE h \in 0..10000 : PercentText(h) = r.diffPercentage>>
  ELSE <<>>

\* !r.error && parseFloat(r.diffPercentage) === 0
IsIdentical(r) == ~Truthy(r) /\ ParseFloat(r) = <<0>>

\* A faulty variant: >= in place of >
IsDifferent_orEqual(r) == ~Truthy(r) /\ ParseFloat(r) # <<>> /\ ParseFloat(r)[1] >= 0

\* !r.error && parseFloat(r.diffPercentage) > 0
IsDifferent(r) == ~Truthy(r) /\ ParseFloat(r) # <<>> /\ ParseFloat(r)[1] > 0

\* if (result.error) { the error card } else { the comparison card with the
\* three images }
CardOf(r) ==
  IF Truthy(r) THEN [kind |-> "error", images |-> {}]
  ELSE [kind |-> "comparison",
        images |-> {r.beforeImage, r.afterImage, r.diffImage}]

\* diffResult.diffPercentage === "0.00" ? `No differences found!` : ...;
\* in the catch block `Processing failed: ...`
StatusLine(r) ==
  IF "error" \in DOMAIN r THEN "Processing failed"
  ELSE IF r.diffPercentage = "0.00" THEN "No differences found"
  ELSE r.diffPercentage \o "% difference"

\* runVRT logs the status line of the next pair as it pushes its result
AnnouncePair ==
  /\ Len(announced) < Len(rList)
  /\ announced' = Append(announced, StatusLine(rList[Len(announced) + 1]))
  /\ UNCHANGED <<rList, summary, runVars, diffVars, pageVars, legacyVars, tuiVars,
                 menuVars, optionVars, fileVars>>

\* generateReport(results, outputDir): the summary items and the cards; the
\* tallies are kept as the sets of positions the filters select
WriteReport ==
  /\ Len(announced) = Len(rList)
  /\ summary = <<>>
  /\ summary' =
       <<[comparisons |-> Len(rList),
          identical |-> {k \in 1..Len(rList) : IsIdentical(rList[k])},
          different |-> {k \in 1..Len(rList) : IsDifferent(rList[k])},
          errors |-> {k \in 1..Len(rList) : Truthy(rList[k])},
          cards |-> [k \in 1..Len(rList) |-> CardOf(rList[k])]]>>
  /\ UNCHANGED <<rList, announced, runVars, diffVars, pageVars, legacyVars, tuiVars,
                 menuVars, optionVars, fileVars>>

InitReport ==
  /\ RunIdle
  /\ DiffIdle
  /\ PageIdle
  /\ TuiIdle /\ MenuIdle /\ OptionsIdle /\ FileIdle /\ LegacyIdle
  /\ rList \in ResultLists
  /\ announced = <<>>
  /\ summary = <<>>

NextReport == AnnouncePair \/ WriteReport

SpecReport == InitReport /\ [][NextReport]_vars

\* C23: in the report every result is counted in exactly one of the tallies
\* identical, different, errors, so the three counts add up to the number of
\* comparisons; a result with an error is counted under errors only and is
\* rendered as an error card without images.
C23_TalliesPartition ==
  summary # <<>> =>
    LET s == summary[1]
    IN /\ s.comparisons = Len(rList)
       /\ Cardinality(s.identical) + Cardinality(s.different)
            + Cardinality(s.errors) = s.comparisons
       /\ \A k \in 1..Len(rList) :
            /\ Cardinality({t \in {"identical", "different", "errors"} :
                              k \in s[t]}) = 1
            /\ "error" \in DOMAIN rList[k] =>
                 /\ k \in s.errors
                 /\ s.cards[k].kind = "error"
                 /\ s.cards[k].images = {}

\* C23: a report of an identical pair and a failed pair
C23_Witness ==
  /\ summary # <<>>
  /\ Len(rList) = 2
  /\ summary[1].identical = {1}
  /\ summary[1].errors = {2}
  /\ summary[1].cards[2].kind = "error"

\* C27: a pair is announced with "No differences found" and counted as
\* identical in the report only when its pixelDiff is zero, and every pair
\* with at least one differing pixel is counted as different.
C27_NoDifferencesMeansZero ==
  \A k \in 1..Len(rList) :
    "pixelDiff" \in DOMAIN rList[k] =>
      /\ (k <= Len(announced) /\ announced[k] = "No differences found")
           => rList[k].pixelDiff = 0
      /\ summary # <<>> =>
           /\ k \in summary[1].identical => rList[k].pixelDiff = 0
           /\ rList[k].pixelDiff > 0 => k \in summary[1].different

\* C24: progress is reported exactly once per pair, when the pair finishes
\* (with a result or with an error), with current = k for the k-th pair and
\* total = the number of pairs; the reported index increases strictly and
\* equals the total once the last pair has finished.
C24_ProgressPerPair ==
  /\ Len(progress) = Len(results)
  /\ \A k \in 1..Len(progress) : progress[k] = <<k, Len(urlPairs)>>
  /\ \A j, k \in 1..Len(progress) : j < k => progress[j][1] < progress[k][1]
  /\ (pc \in {"browserClose", "generateReport", "open", "done"}
        /\ Len(urlPairs) > 0) =>
       /\ Len(progress) = Len(urlPairs)
       /\ progress[Len(progress)][1] = progress[Len(progress)][2]

\* C24: two pairs finished, the first with an error, the second with a diff
C24_Witness ==
  /\ pc = "browserClose"
  /\ progress = << <<1, 2>>, <<2, 2>> >>
  /\ HasError(results[1])
  /\ HasMetrics(results[2])

\* C28: the browser launched by runVRT is closed exactly once, by the
\* browser.close() that follows the last pair and precedes the report,
\* however many pairs failed: the loop always ends in that call, report
\* generation is only reached with the browser closed, a closed browser is
\* never used again and no page is created after the close.
C28_BrowserClosedOnce ==
  /\ [](pc \in {"generateReport", "open", "done"} => browser = "closed")
  /\ []((pc = "rejected" /\ browser = "open") => thrower = "browserClose")
  /\ [](pc \in PairSteps => browser = "open")
  /\ [][ /\ browser' # browser =>
              \/ (browser = "none" /\ browser' = "open" /\ pc = "launch")
              \/ /\ browser = "open" /\ browser' = "closed"
                 /\ pc = "browserClose" /\ pc' = "generateReport"
                 /\ Len(results) = Len(urlPairs)
         /\ (pc = "loop" /\ i >= Len(urlPairs)) => pc' = "browserClose"
         /\ nextPageId' # nextPageId => browser = "open"
       ]_vars

\* C28: both pairs failed and the browser is closed before the report
C28_Witness ==
  /\ pc = "generateReport"
  /\ browser = "closed"
  /\ Len(results) = 2
  /\ HasError(results[1]) /\ HasError(results[2])

\* =========================================================================
\* HistoryManager (src/history.js): saveHistory
\* =========================================================================

MaxSaves == 2

\* const MAX_HISTORY_ITEMS = 20
MAX_HISTORY_ITEMS == 20

\* An entry of the history file stands for { id, timestamp, urlPairs,
\* options }; it is written as the rank of its save: entry n was saved after
\* entry n - 1.
EntryIds(history) == { history[k] : k \in 1..Len(history) }

\* const newEntry = { id: Date.now().toString(), ... }: younger than every
\* entry of the file
NewEntry(history) ==
  IF history = <<>> THEN 1
  ELSE 1 + CHOOSE n \in EntryIds(history) : \A m \in EntryIds(history) : m <= n

\* history.unshift(newEntry)
Unshift(history, newEntry) == <<newEntry>> \o history

\* The list is left as long as it is
Truncate_never(history) == history

\* if (history.length > MAX_HISTORY_ITEMS) history.length = MAX_HISTORY_ITEMS
Truncate(history) ==
  IF Len(history) > MAX_HISTORY_ITEMS
    THEN SubSeq(history, 1, MAX_HISTORY_ITEMS)
    ELSE history

\* What saveHistory writes to the file when it read history from it
Saved(history) == Truncate(Unshift(history, NewEntry(history)))

\* saveHistory(urlPairs, options) is called: the calls are sequential
SaveCalled ==
  /\ hp = "idle"
  /\ ui = None
  /\ NewEntry(store) <= MAX_HISTORY_ITEMS + MaxSaves
  /\ saveErrors < MaxSaves
  /\ hp' = "loadHistory"
  /\ UNCHANGED <<store, saveErrors, runVars, diffVars, pageVars, legacyVars, reportVars,
                 tuiVars, menuVars, optionVars>>

\* const history = await this.loadHistory(): the entries of the file ([] when
\* there is no file), or an error that saveHistory logs and throws again
SaveLoads ==
  /\ hp = "loadHistory"
  /\ \E read \in BOOLEAN :
       IF read
         THEN hp' = "writeFile" /\ saveErrors' = saveErrors
         ELSE hp' = "idle" /\ saveErrors' = saveErrors + 1
  /\ UNCHANGED <<store, runVars, diffVars, pageVars, legacyVars, reportVars, tuiVars,
                 menuVars, optionVars>>

\* await fs.writeFile(this.historyFilePath, JSON.stringify(history, ...)):
\* the file holds the new list, or the write fails and saveHistory logs the
\* error and throws it again
SaveWrites ==
  /\ hp = "writeFile"
  /\ \E written \in BOOLEAN :
       IF written
         THEN /\ store' = Saved(store)
              /\ hp' = "idle"
              /\ saveErrors' = saveErrors
         ELSE /\ store' = store
              /\ hp' = "idle"
              /\ saveErrors' = saveErrors + 1
  /\ UNCHANGED <<runVars, diffVars, pageVars, legacyVars, reportVars, tuiVars, menuVars,
                 optionVars>>

saveHistory == SaveCalled \/ SaveLoads \/ SaveWrites

\* The history file as earlier sessions left it: no file, or up to
\* MAX_HISTORY_ITEMS entries, newest first
StoredHistories ==
  { [k \in 1..n |-> n + 1 - k] : n \in 0..MAX_HISTORY_ITEMS }

InitHistory ==
  /\ RunIdle /\ DiffIdle /\ PageIdle
  /\ ReportIdle /\ TuiIdle /\ MenuIdle /\ OptionsIdle /\ LegacyIdle
  /\ store \in StoredHistories
  /\ saveErrors = 0
  /\ hp = "idle"

NextHistory == saveHistory

SpecHistory == InitHistory /\ [][NextHistory]_vars

\* =========================================================================
\* The tui command: VrtTui and startTui (src/tui.js), the action (index.js)
\* =========================================================================

MaxTuiPairs == 2
MaxFieldLen == 2

\* The text of a field is the sequence of the characters typed into it
Characters == {"a"}

EmptyPair == [before |-> <<>>, after |-> <<>>]

\* urlPairs.filter((pair) => pair.before && pair.after), keeping the order
Complete(pair) == pair.before # <<>> /\ pair.after # <<>>

\* A faulty variant: only the before field is looked at
BeforeGiven(pair) == pair.before # <<>>

ValidPairs_beforeOnly(list) == SelectSeq(list, BeforeGiven)

ValidPairs(list) == SelectSeq(list, Complete)

\* urlPairs.filter((_, index) => index !== currentPair), index from 0
Without(list, index) ==
  [k \in 1..(Len(list) - 1) |-> IF k <= index THEN list[k] ELSE list[k + 1]]

\* The field under the cursor
FieldText == tuiPairs[currentPair + 1][currentField]

SetField(text) ==
  tuiPairs' = [tuiPairs EXCEPT ![currentPair + 1][currentField] = text]

\* useInput is called while the component is mounted
Listening(m) == ui = "VrtTui" /\ ~exited /\ mode = m

\* key.return in input mode
InputReturn ==
  /\ Listening("input")
  /\ IF currentField = "before"
       THEN currentField' = "after" /\ UNCHANGED <<currentPair, mode>>
     ELSE IF currentPair < Len(tuiPairs) - 1
       THEN currentPair' = currentPair + 1 /\ currentField' = "before"
            /\ mode' = mode
     ELSE mode' = "confirm" /\ UNCHANGED <<currentPair, currentField>>
  /\ UNCHANGED <<ui, tuiPairs, saving, submissions, exited, tuiPc, tuiOut, offTui>>

\* key.tab: a new empty pair is appended and takes the cursor
InputTab ==
  /\ Listening("input")
  /\ Len(tuiPairs) < MaxTuiPairs
  /\ tuiPairs' = Append(tuiPairs, EmptyPair)
  /\ currentPair' = Len(tuiPairs)
  /\ currentField' = "before"
  /\ UNCHANGED <<ui, mode, saving, submissions, exited, tuiPc, tuiOut, offTui>>

\* The pair under the cursor is removed even when it is the only one
InputDelete_lastPair ==
  /\ Listening("input")
  /\ LET newPairs == Without(tuiPairs, currentPair)
     IN /\ tuiPairs' = newPairs
        /\ currentPair' = IF currentPair >= Len(newPairs) THEN Len(newPairs) - 1
                          ELSE currentPair
        /\ currentField' = currentField
  /\ UNCHANGED <<ui, mode, saving, submissions, exited, tuiPc, tuiOut, offTui>>

\* key.ctrl && input === "d"
InputDelete ==
  /\ Listening("input")
  /\ Len(tuiPairs) > 1
  /\ LET newPairs == Without(tuiPairs, currentPair)
     IN /\ tuiPairs' = newPairs
        /\ currentPair' = IF currentPair >= Len(newPairs) THEN Len(newPairs) - 1
                          ELSE currentPair
        /\ currentField' =
             IF /\ currentPair < Len(newPairs)
                /\ newPairs[currentPair + 1] = EmptyPair
               THEN "before" ELSE currentField
  /\ UNCHANGED <<ui, mode, saving, submissions, exited, tuiPc, tuiOut, offTui>>

\* key.backspace || key.delete
InputBackspace ==
  /\ Listening("input")
  /\ Len(FieldText) > 0
  /\ SetField(SubSeq(FieldText, 1, Len(FieldText) - 1))
  /\ UNCHANGED <<ui, currentPair, currentField, mode, saving, submissions,
                 exited, tuiPc, tuiOut, offTui>>

\* A printable character, or the first line of the clipboard on Ctrl+V, is
\* appended to the field under the cursor
InputText ==
  /\ Listening("input")
  /\ \E c \in Characters :
       /\ Len(FieldText) < MaxFieldLen
       /\ SetField(Append(FieldText, c))
  /\ UNCHANGED <<ui, currentPair, currentField, mode, saving, submissions,
                 exited, tuiPc, tuiOut, offTui>>

\* key.upArrow / key.downArrow
InputArrow ==
  /\ Listening("input")
  /\ \E step \in {-1, 1} :
       /\ currentPair + step \in 0..(Len(tuiPairs) - 1)
       /\ currentPair' = currentPair + step
       /\ currentField' = "before"
  /\ UNCHANGED <<ui, tuiPairs, mode, saving, submissions, exited, tuiPc, tuiOut,
                 offTui>>

\* key.escape in input mode: exit()
InputEscape ==
  /\ Listening("input")
  /\ exited' = TRUE
  /\ UNCHANGED <<ui, tuiPairs, currentPair, currentField, mode, saving,
                 submissions, tuiPc, tuiOut, offTui>>

\* confirm mode, key.return || input === "y":
\* if (validPairs.length > 0) { onSubmit(validPairs); exit(); }
\* handleSubmit = (pairs) => resolve(pairs) settles the promise of startTui
ConfirmYes ==
  /\ Listening("confirm")
  /\ LET validPairs == ValidPairs(tuiPairs)
     IN IF Len(validPairs) > 0
          THEN /\ submissions' = Append(submissions, validPairs)
               /\ exited' = TRUE
          ELSE UNCHANGED <<submissions, exited>>
  /\ UNCHANGED <<ui, tuiPairs, currentPair, currentField, mode, saving, tuiPc,
                 tuiOut, offTui>>

\* confirm mode, input === "n" || key.escape
ConfirmNo ==
  /\ Listening("confirm")
  /\ mode' = "input"
  /\ UNCHANGED <<ui, tuiPairs, currentPair, currentField, saving, submissions,
                 exited, tuiPc, tuiOut, offTui>>

VrtTui ==
  \/ InputReturn \/ InputTab \/ InputDelete \/ InputBackspace \/ InputText
  \/ InputArrow \/ InputEscape \/ ConfirmYes \/ ConfirmNo

\* A value of the script: an array (its items), or an object with the
\* properties pairs and options
JsArray(items) == [type |-> "array", items |-> items]

\* value.pairs: <<>> for undefined, else <<the property>>; an array has no
\* property of that name
PairsOf(value) ==
  IF value.type = "array" THEN <<>> ELSE <<value.pairs>>

\* const tuiResult = await startTui(); the promise was resolved by
\* handleSubmit with the array it was given;
\* if (!tuiResult || !tuiResult.pairs || tuiResult.pairs.length === 0) {
\*   console.log("No URL pairs provided. Exiting."); process.exit(0) }
\* ...; await runVRT(pairs, mergedOptions)
TuiAction ==
  /\ ui = "VrtTui"
  /\ tuiPc = "startTui"
  /\ submissions # <<>>
  /\ LET tuiResult == JsArray(submissions[1])
     IN IF PairsOf(tuiResult) = <<>>
          THEN /\ tuiPc' = "exited"
               /\ tuiOut' = [message |-> "No URL pairs provided. Exiting.",
                             exitCode |-> <<0>>, runVRT |-> <<>>]
          ELSE /\ tuiPc' = "runVRT"
               /\ tuiOut' = [message |-> "", exitCode |-> <<>>,
                             runVRT |-> <<submissions[1]>>]
  /\ UNCHANGED <<ui, tuiPairs, currentPair, currentField, mode, saving,
                 submissions, exited, offTui>>

\* useState([{ before: "", after: "" }]), currentPair 0, currentField
\* "before", mode "input"; the action awaits startTui
TuiMounted ==
  /\ tuiPairs = <<EmptyPair>>
  /\ currentPair = 0
  /\ currentField = "before"
  /\ mode = "input"
  /\ saving = <<>>
  /\ submissions = <<>>
  /\ exited = FALSE
  /\ tuiPc = "startTui"
  /\ tuiOut = [message |-> "", exitCode |-> <<>>, runVRT |-> <<>>]

\* =========================================================================
\* KeyHandlers (src/tui/key-handlers.js): input, options and confirm modes
\* =========================================================================

MaxConfirms == 2

\* What the text input can leave in a field
FieldTexts == {<<>>} \cup { <<c>> : c \in Characters }

\* The handlers are called while the component is mounted
KeysListening(m) == ui = "KeyHandlers" /\ ~exited /\ mode = m

\* The text input reports a new value of the field under the cursor
KeysEdit ==
  /\ KeysListening("input")
  /\ \E text \in FieldTexts : text # FieldText /\ SetField(text)
  /\ UNCHANGED <<ui, currentPair, currentField, mode, saving, submissions,
                 exited, tuiPc, tuiOut, offTui>>

\* handleInputMode
handleInputMode ==
  /\ KeysListening("input")
  /\ \E key \in {"return", "upArrow", "downArrow", "escape"} :
       CASE key = "return" ->
              IF currentField = "before"
                THEN currentField' = "after" /\ UNCHANGED <<currentPair, mode>>
              ELSE IF currentPair < Len(tuiPairs) - 1
                THEN /\ currentPair' = currentPair + 1
                     /\ currentField' = "before"
                     /\ mode' = mode
              ELSE mode' = "options" /\ UNCHANGED <<currentPair, currentField>>
         [] key = "upArrow" ->
              /\ currentPair > 0
              /\ currentPair' = currentPair - 1
              /\ currentField' = "before"
              /\ mode' = mode
         [] key = "downArrow" ->
              /\ currentPair < Len(tuiPairs) - 1
              /\ currentPair' = currentPair + 1
              /\ currentField' = "before"
              /\ mode' = mode
         [] key = "escape" ->
              mode' = "menu" /\ UNCHANGED <<currentPair, currentField>>
  /\ UNCHANGED <<ui, tuiPairs, saving, submissions, exited, tuiPc, tuiOut, offTui>>

\* handleOptionsMode, no option being edited: "s" opens the confirmation
\* when a pair is complete, ESC goes back to the form
handleOptionsMode ==
  /\ KeysListening("options")
  /\ ~editingOption
  /\ \E key \in {"s", "escape"} :
       IF key = "s"
         THEN /\ Len(ValidPairs(tuiPairs)) > 0
              /\ mode' = "confirm"
         ELSE mode' = "input"
  /\ UNCHANGED <<ui, tuiPairs, currentPair, currentField, saving, submissions,
                 exited, tuiPc, tuiOut, offTui>>

\* handleConfirmMode: Enter or "y" calls historyManager.saveHistory(validPairs,
\* options) when a pair is complete; "n" or ESC goes back to the options
handleConfirmMode ==
  /\ KeysListening("confirm")
  /\ \E key \in {"return", "n"} :
       IF key = "return"
         THEN LET validPairs == ValidPairs(tuiPairs)
              IN /\ Len(validPairs) > 0
                 /\ Len(saving) + Len(submissions) < MaxConfirms
                 /\ saving' = Append(saving, validPairs)
                 /\ mode' = mode
         ELSE mode' = "options" /\ saving' = saving
  /\ UNCHANGED <<ui, tuiPairs, currentPair, currentField, submissions, exited,
                 tuiPc, tuiOut, offTui>>

\* .then(() => { onSubmit(validPairs, options); exit(); })
SaveResolved ==
  /\ submissions' = Append(submissions, Head(saving))
  /\ exited' = TRUE

\* A rejected save is not followed by anything
SaveRejected_dropped == UNCHANGED <<submissions, exited>>

\* .catch(() => { onSubmit(validPairs, options); exit(); })
SaveRejected ==
  /\ submissions' = Append(submissions, Head(saving))
  /\ exited' = TRUE

\* The promise of saveHistory settles (history.js: it rejects, after logging
\* the failure, when the history file cannot be read, parsed or written) and
\* the reaction attached to it runs
SaveSettles ==
  /\ ui = "KeyHandlers"
  /\ saving # <<>>
  /\ \E saved \in BOOLEAN :
       /\ IF saved THEN SaveResolved ELSE SaveRejected
       /\ saving' = Tail(saving)
       /\ saveErrors' = IF saved THEN saveErrors ELSE saveErrors + 1
       /\ store' = IF saved THEN Saved(store) ELSE store
  /\ UNCHANGED <<ui, tuiPairs, currentPair, currentField, mode, tuiPc, tuiOut,
                 hp, runVars, diffVars, pageVars, legacyVars, reportVars, menuVars,
                 optionVars>>

KeyHandlers ==
  \/ KeysEdit \/ handleInputMode \/ handleOptionsMode \/ handleConfirmMode
  \/ SaveSettles

\* The form is shown with one to MaxTuiPairs empty pairs
KeysMounted ==
  /\ tuiPairs \in { [k \in 1..n |-> EmptyPair] : n \in 1..MaxTuiPairs }
  /\ currentPair = 0
  /\ currentField = "before"
  /\ mode = "input"
  /\ saving = <<>>
  /\ submissions = <<>>
  /\ exited = FALSE
  /\ tuiPc = "idle"
  /\ tuiOut = [message |-> "", exitCode |-> <<>>, runVRT |-> <<>>]

InitTui ==
  /\ RunIdle
  /\ DiffIdle
  /\ PageIdle
  /\ ReportIdle /\ MenuIdle /\ OptionsIdle /\ FileIdle /\ LegacyIdle
  /\ ui \in {"VrtTui", "KeyHandlers"}
  /\ IF ui = "VrtTui" THEN TuiMounted ELSE KeysMounted

NextTui == VrtTui \/ TuiAction \/ KeyHandlers

SpecTui == InitTui /\ [][NextTui]_vars

\* C25: when the user has confirmed a non-empty list of complete pairs and
\* the tui action has gone on after startTui, runVRT has been called with
\* exactly those pairs in the same order, and the action has not stopped with
\* "No URL pairs provided".
C25_ConfirmedPairsRun ==
  (ui = "VrtTui" /\ submissions # <<>> /\ tuiPc # "startTui") =>
    /\ tuiOut.runVRT = <<submissions[1]>>
    /\ tuiOut.message # "No URL pairs provided. Exiting."

\* C26: onSubmit is only ever called with a non-empty list whose pairs all
\* have a non-empty before and a non-empty after URL: the list is the pair
\* list of the form without its incomplete pairs, and a confirmation given
\* while no pair is complete submits nothing and does not exit.
C26_OnlyCompletePairs ==
  /\ [](\A k \in 1..Len(saving \o submissions) :
          LET list == (saving \o submissions)[k]
          IN /\ Len(list) > 0
             /\ \A n \in 1..Len(list) :
                  list[n].before # <<>> /\ list[n].after # <<>>)
  /\ [][ /\ Len(saving \o submissions)' > Len(saving \o submissions) =>
              LET taken == (saving \o submissions)'
              IN /\ mode = "confirm"
                 /\ taken[Len(taken)] =
                      SelectSeq(tuiPairs,
                                LAMBDA p : p.before # <<>> /\ p.after # <<>>)
         /\ ( /\ mode = "confirm"
              /\ \A n \in 1..Len(tuiPairs) :
                   tuiPairs[n].before = <<>> \/ tuiPairs[n].after = <<>> )
            => (UNCHANGED <<saving, submissions>> /\ exited' = exited)
       ]_vars

\* C26: of two pairs in the form the incomplete first one was left out and
\* the second one was submitted
C26_Witness ==
  /\ Len(tuiPairs) = 2
  /\ tuiPairs[1].after = <<>>
  /\ submissions = << <<tuiPairs[2]>> >>
  /\ exited

\* C29: generateDiff returns a sizeWarning other than null exactly when the
\* two decoded images differ in width or in height; for images of the same
\* size nothing is resampled or padded: the two decoded buffers are the ones
\* compared, at their own width and height.
C29_SizeWarningIffMismatch ==
  (dpc = "settled" /\ ~dOut.threw) =>
    /\ (dOut.sizeWarning # "null") <=>
         (dIn.before.width # dIn.after.width \/ dIn.before.height # dIn.after.height)
    /\ (dIn.before.width = dIn.after.width /\ dIn.before.height = dIn.after.height)
         => /\ dOut.strategy = "direct"
            /\ dOut.width = dIn.before.width
            /\ dOut.height = dIn.before.height
            /\ dOut.pixelDiff =
                 Cardinality({k \in 1..Len(dIn.before.data) :
                                PixelDiffers(dIn.before.data[k], dIn.after.data[k])})

\* C29: two images of different height were compared after padding and the
\* result carries the warning
C29_Witness ==
  /\ dpc = "settled"
  /\ ~dOut.threw
  /\ dIn.before.height # dIn.after.height
  /\ dOut.strategy = "padded"
  /\ dOut.sizeWarning = SizeWarningText(dIn.before, dIn.after)

\* C30: whenever generateDiff reaches the comparison (directly, after
\* resampling or after padding) the before buffer, the after buffer and the
\* diff buffer all hold width * height pixels for the width and height given
\* to the comparison, so pixelmatch never rejects them and never reads or
\* writes outside a buffer.
C30_BuffersMatchDimensions ==
  dpc = "settled" =>
    /\ dOut.error # "Image sizes do not match"
    /\ ~dOut.threw =>
         /\ dOut.strategy \in {"direct", "resized", "padded"}
         /\ dOut.lenBefore = dOut.width * dOut.height
         /\ dOut.lenAfter = dOut.width * dOut.height
         /\ dOut.lenDiff = dOut.width * dOut.height

\* C30: a narrower before image was padded to the size of the after image
C30_Witness ==
  /\ dpc = "settled"
  /\ ~dOut.threw
  /\ dOut.strategy = "padded"
  /\ dOut.lenBefore > Len(dIn.before.data)
  /\ dOut.lenBefore = dOut.lenAfter
\* =========================================================================
\* Claims about triggerLazyLoading
\* =========================================================================

ScrollIndexes == { k \in 1..Len(lazyLog) : lazyLog[k][1] = "scrollTo" }

WaitIndexes == { k \in 1..Len(lazyLog) : lazyLog[k] = <<"waitImages">> }

Swept == \E k \in 1..Len(lazyLog) : lazyLog[k] = <<"swept">>

\* C31: whenever the scroll sweep of lazy-load forcing has reached the bottom
\* of the document, the page is scrolled back to the top before lazy-load
\* forcing returns: the last scroll command issued by triggerLazyLoading is a
\* scroll to position 0, and the final image wait happens after it.
C31_BackToTop ==
  (lz \in LazyEnded /\ Swept) =>
    /\ ScrollIndexes # {}
    /\ \E last \in ScrollIndexes :
         /\ \A k \in ScrollIndexes : k <= last
         /\ lazyLog[last] = ScrollCommand(0)
         /\ \E w \in WaitIndexes : w > last
\* The calls of historyManager.saveHistory made so far: the pending ones and
\* the settled ones, each of which was followed by onSubmit
SaveHistoryCalls == Len(saving) + Len(submissions)

\* C33: in confirm mode of the key handlers, onSubmit and saveHistory are
\* each invoked at most once per session, even when the confirm key (Enter
\* or y) is pressed again while the history save of the first confirmation
\* is still pending.
C33_SubmittedOnce ==
  ui = "KeyHandlers" => (SaveHistoryCalls <= 1 /\ Len(submissions) <= 1)
\* C36: in the input form (VrtTui), after any sequence of Enter, Tab, Ctrl+D,
\* arrow and character keys, the pair list is never empty and the cursor
\* satisfies 0 <= currentPair < urlPairs.length with currentField before or
\* after; a key that lengthens the list (Tab) appends one empty pair and
\* moves the cursor to its before field, and a key that shortens it (Ctrl+D)
\* removes the pair under the cursor, and only when more than one pair
\* exists.
C36_FormCursor ==
  /\ [](ui = "VrtTui" =>
          /\ Len(tuiPairs) >= 1
          /\ currentPair \in 0..(Len(tuiPairs) - 1)
          /\ currentField \in {"before", "after"})
  /\ [][ ui = "VrtTui" =>
           /\ Len(tuiPairs') > Len(tuiPairs) =>
                /\ tuiPairs' = Append(tuiPairs, EmptyPair)
                /\ currentPair' = Len(tuiPairs)
                /\ currentField' = "before"
           /\ Len(tuiPairs') < Len(tuiPairs) =>
                /\ Len(tuiPairs) > 1
                /\ tuiPairs' = Without(tuiPairs, currentPair)
       ]_vars

\* C36: a before URL was typed and Tab was pressed: the list has a second,
\* empty pair and the cursor is on its before field
C36_Witness ==
  /\ ui = "VrtTui"
  /\ mode = "input"
  /\ Len(tuiPairs) = 2
  /\ tuiPairs[1].before # <<>>
  /\ tuiPairs[2] = EmptyPair
  /\ currentPair = 1
  /\ currentField = "before"
\* C37: after any sequence of sequential saveHistory calls, the stored
\* history holds at most 20 entries, the most recently saved entry is first,
\* entries are in reverse order of saving, and only the oldest entries are
\* dropped when the limit is exceeded: a save that changes the file puts its
\* entry in front of the entries that were there and keeps the first 20.
C37_HistoryBounded ==
  /\ [](/\ Len(store) <= 20
        /\ \A k \in 1..(Len(store) - 1) : store[k] > store[k + 1])
  /\ [][ store' # store =>
           /\ store'[1] \notin EntryIds(store)
           /\ \A n \in EntryIds(store) : n < store'[1]
           /\ \A k \in 2..Len(store') : store'[k] = store[k - 1]
           /\ Len(store') = IF Len(store) < 20 THEN Len(store) + 1 ELSE 20
       ]_vars

\* C37: the file held 20 entries and two more were saved: the two oldest
\* entries are gone and the newest is first
C37_Witness ==
  /\ hp = "idle"
  /\ Len(store) = 20
  /\ store[1] = 22
  /\ store[20] = 3
\* The reactions of the promises of saveHistory are run by the event loop:
\* every file operation of saveHistory settles, so every pending save does.
SpecTuiFair == InitTui /\ [][NextTui]_vars /\ WF_vars(SaveSettles)

\* C34: in confirm mode of the key handlers, once the user has confirmed with
\* at least one valid pair, onSubmit(validPairs, options) followed by exit()
\* is eventually called, whether saveHistory resolves or rejects: the n-th
\* confirmation leads to the n-th onSubmit call, made with the pairs that
\* were confirmed and together with exit().
C34_SubmitEventually ==
  /\ \A n \in 1..MaxConfirms :
       (ui = "KeyHandlers" /\ SaveHistoryCalls >= n)
         ~> (Len(submissions) >= n /\ exited)
  /\ [][ (ui = "KeyHandlers" /\ saving # <<>> /\ saving' # saving
            /\ Len(saving') < Len(saving)) =>
           /\ submissions' = Append(submissions, Head(saving))
           /\ exited'
       ]_vars

\* C34: a confirmation whose saveHistory rejected was submitted all the same
C34_Witness ==
  /\ ui = "KeyHandlers"
  /\ saveErrors = 1
  /\ store = <<>>
  /\ saving = <<>>
  /\ Len(submissions) = 1
  /\ exited
\* =========================================================================
\* KeyHandlers: the options screen (handleOptionsMode in full)
\* =========================================================================

MaxTempLen == 2

\* The characters typed into the value of an option: a digit and a letter
OptionChars == {"1", "x"}

TempTexts == UNION { [1..n -> OptionChars] : n \in 0..MaxTempLen }

DigitChars == <<"0", "1", "2", "3", "4", "5", "6", "7", "8", "9">>

IsDigit(c) == \E d \in 1..10 : DigitChars[d] = c

Digit(c) == (CHOOSE d \in 1..10 : DigitChars[d] = c) - 1

RECURSIVE DigitsValue(_)
DigitsValue(text) ==
  IF text = <<>> THEN 0
  ELSE 10 * DigitsValue(SubSeq(text, 1, Len(text) - 1)) + Digit(text[Len(text)])

RECURSIVE NumberToString(_)
NumberToString(n) ==
  IF n < 10 THEN <<DigitChars[n + 1]>>
  ELSE Append(NumberToString(n \div 10), DigitChars[(n % 10) + 1])

\* parseFloat(tempOptionValue) on these texts: the number written by the
\* longest prefix of digits, <<>> for NaN when the text does not begin with
\* a digit
ParseFloatText(text) ==
  LET n == CHOOSE k \in 0..Len(text) :
             /\ \A j \in 1..k : IsDigit(text[j])
             /\ k = Len(text) \/ ~IsDigit(text[k + 1])
  IN IF n = 0 THEN <<>> ELSE <<DigitsValue(SubSeq(text, 1, n))>>

NumberValue(n) == [type |-> "number", value |-> n]
StringValue(text) == [type |-> "string", value |-> text]
\* NaN is a number that is equal to no number
NaN == [type |-> "NaN", value |-> 0]

\* currentValue.toString()
OptionText(v) == IF v.type = "number" THEN NumberToString(v.value) ELSE v.value

\* state.optionItems: one option of each type
optionItems ==
  << [key |-> "width", type |-> "number"],
     [key |-> "outputDir", type |-> "string"] >>

OptionKeys == { optionItems[k].key : k \in 1..Len(optionItems) }

DefaultOptions ==
  [k \in OptionKeys |-> IF k = "width" THEN NumberValue(11) ELSE StringValue(<<"x">>)]

\* The number is stored whatever parseFloat returned
NewOptions_unchecked(item, text) ==
  IF item.type = "number"
    THEN [tuiOptions EXCEPT ![item.key] =
            IF ParseFloatText(text) = <<>> THEN NaN
            ELSE NumberValue(ParseFloatText(text)[1])]
    ELSE [tuiOptions EXCEPT ![item.key] = StringValue(text)]

\* const newOptions = { ...options };
\* if (optionType === "number") { const numValue = parseFloat(tempOptionValue);
\*   if (!isNaN(numValue)) newOptions[optionKey] = numValue; }
\* else newOptions[optionKey] = tempOptionValue;
NewOptions(item, text) ==
  IF item.type = "number"
    THEN IF ParseFloatText(text) = <<>> THEN tuiOptions
         ELSE [tuiOptions EXCEPT ![item.key] = NumberValue(ParseFloatText(text)[1])]
    ELSE [tuiOptions EXCEPT ![item.key] = StringValue(text)]

offOptions ==
  <<runVars, diffVars, pageVars, legacyVars, reportVars, menuVars, fileVars, ui,
    currentPair, currentField, saving, submissions, exited, tuiPc, tuiOut>>

\* The text input of the option being edited reports a new value:
\* updateState({ tempOptionValue: value }); handleOptionsMode ignores the key
OptionsTyping ==
  /\ KeysListening("options")
  /\ editingOption
  /\ \E text \in TempTexts :
       /\ text # tempOptionValue
       /\ tempOptionValue' = text
  /\ lastKey' = "text"
  /\ UNCHANGED <<optionSelection, editingOption, tuiOptions, tuiPairs, mode,
                 offOptions>>

\* handleOptionsMode, if (editingOption): Enter stores the value, ESC drops it
OptionsEditing ==
  /\ KeysListening("options")
  /\ editingOption
  /\ \E key \in {"return", "escape"} :
       /\ lastKey' = key
       /\ tuiOptions' =
            IF key = "return"
              THEN NewOptions(optionItems[optionSelection + 1], tempOptionValue)
              ELSE tuiOptions
  /\ editingOption' = FALSE
  /\ tempOptionValue' = <<>>
  /\ UNCHANGED <<optionSelection, tuiPairs, mode, offOptions>>

\* handleOptionsMode, else: the arrows move the selection, Enter begins the
\* editing of the selected option, "s" opens the confirmation when a pair is
\* complete, ESC goes back to the form
OptionsBrowsing ==
  /\ KeysListening("options")
  /\ ~editingOption
  /\ \E key \in {"upArrow", "downArrow", "return", "s", "escape"} :
       /\ lastKey' = key
       /\ CASE key = "upArrow" ->
                 /\ optionSelection > 0
                 /\ optionSelection' = optionSelection - 1
                 /\ UNCHANGED <<editingOption, tempOptionValue, mode>>
            [] key = "downArrow" ->
                 /\ optionSelection < Len(optionItems) - 1
                 /\ optionSelection' = optionSelection + 1
                 /\ UNCHANGED <<editingOption, tempOptionValue, mode>>
            [] key = "return" ->
                 /\ tempOptionValue' =
                      OptionText(tuiOptions[optionItems[optionSelection + 1].key])
                 /\ editingOption' = TRUE
                 /\ UNCHANGED <<optionSelection, mode>>
            [] key = "s" ->
                 /\ Len(ValidPairs(tuiPairs)) > 0
                 /\ mode' = "confirm"
                 /\ UNCHANGED <<optionSelection, editingOption, tempOptionValue>>
            [] key = "escape" ->
                 /\ mode' = "input"
                 /\ UNCHANGED <<optionSelection, editingOption, tempOptionValue>>
  /\ UNCHANGED <<tuiOptions, tuiPairs, offOptions>>

\* The options screen is shown, with or without a complete pair in the form
OptionsShown ==
  /\ ui = "KeyHandlers"
  /\ tuiPairs \in {<<EmptyPair>>, <<[before |-> <<"a">>, after |-> <<"a">>]>>}
  /\ currentPair = 0
  /\ currentField = "after"
  /\ mode = "options"
  /\ saving = <<>>
  /\ submissions = <<>>
  /\ exited = FALSE
  /\ tuiPc = "idle"
  /\ tuiOut = [message |-> "", exitCode |-> <<>>, runVRT |-> <<>>]
  /\ optionSelection = 0
  /\ editingOption = FALSE
  /\ tempOptionValue = <<>>
  /\ tuiOptions = DefaultOptions
  /\ lastKey = None

InitOptions ==
  /\ RunIdle /\ DiffIdle /\ PageIdle /\ ReportIdle /\ MenuIdle /\ FileIdle /\ LegacyIdle
  /\ OptionsShown

NextOptions == OptionsTyping \/ OptionsEditing \/ OptionsBrowsing

SpecOptions == InitOptions /\ [][NextOptions]_vars

\* C35: in options mode while an option is edited, Enter with a value that
\* does not parse as a number on a number-typed option, and ESC, leave every
\* option value unchanged; both leave the editing mode and clear the
\* temporary value; Enter with a number that parses changes only the
\* selected option, to that number.
C35_OptionEditing ==
  [][ (mode = "options" /\ editingOption /\ lastKey' \in {"return", "escape"}) =>
        LET item == optionItems[optionSelection + 1]
            parsed == ParseFloatText(tempOptionValue)
        IN /\ ~editingOption'
           /\ tempOptionValue' = <<>>
           /\ (lastKey' = "escape" \/ (item.type = "number" /\ parsed = <<>>))
                => tuiOptions' = tuiOptions
           /\ (lastKey' = "return" /\ item.type = "number" /\ parsed # <<>>)
                => /\ tuiOptions'[item.key] = NumberValue(parsed[1])
                   /\ \A k \in OptionKeys \ {item.key} :
                        tuiOptions'[k] = tuiOptions[k]
    ]_vars

\* C35: the width, 11 at first, was edited to a text that begins with the
\* digit 1 alone and Enter was pressed: the width is 1 and the output
\* directory is what it was
C35_Witness ==
  /\ mode = "options"
  /\ lastKey = "return"
  /\ ~editingOption
  /\ optionSelection = 0
  /\ tempOptionValue = <<>>
  /\ tuiOptions.width = NumberValue(1)
  /\ tuiOptions.outputDir = DefaultOptions.outputDir
\* =========================================================================
\* KeyHandlers: the menu and the history screen
\* =========================================================================

MaxHistory == 2
MaxDeletes == 2

\* state.menuItems: new input, history, exit
menuItems == <<"input", "history", "exit">>

\* What the screens of the menu and of the history never change
offHistory ==
  <<runVars, diffVars, pageVars, legacyVars, reportVars, ui, currentPair, currentField,
    saving, submissions, tuiPc, optionSelection, editingOption,
    tempOptionValue, lastKey, saveErrors, hp>>

\* selected.urlPairs of an entry of the history: saveHistory is given
\* complete pairs only
EntryPairs(id) == <<[before |-> <<"a">>, after |-> <<"a">>]>>

\* selected.urlPairs where selected is undefined
TypeError == "TypeError: Cannot read properties of undefined"

\* handleMenuMode
handleMenuMode ==
  /\ KeysListening("menu")
  /\ \E key \in {"upArrow", "downArrow", "return", "escape"} :
       CASE key = "upArrow" ->
              /\ menuSelection > 0
              /\ menuSelection' = menuSelection - 1
              /\ UNCHANGED <<mode, exited>>
         [] key = "downArrow" ->
              /\ menuSelection < Len(menuItems) - 1
              /\ menuSelection' = menuSelection + 1
              /\ UNCHANGED <<mode, exited>>
         [] key = "return" ->
              /\ menuSelection' = menuSelection
              /\ IF menuSelection = 0
                   THEN mode' = "input" /\ exited' = exited
                 ELSE IF menuSelection = 1
                   THEN /\ Len(historyItems) > 0
                        /\ mode' = "history"
                        /\ exited' = exited
                 ELSE /\ menuSelection = 2
                      /\ exited' = TRUE
                      /\ mode' = mode
         [] key = "escape" ->
              /\ exited' = TRUE
              /\ UNCHANGED <<menuSelection, mode>>
  /\ UNCHANGED <<tuiPairs, tuiOut, tuiOptions, store, historyItems,
                 historySelection, deleting, offHistory>>

\* handleHistoryMode: the arrows, Enter, ESC and Ctrl+D.  Ctrl+D starts
\* historyManager.deleteHistoryItem(itemToDelete.id) and keeps, in the
\* reaction it attaches, the historySelection of the moment of the key.
handleHistoryMode ==
  /\ KeysListening("history")
  /\ \E key \in {"upArrow", "downArrow", "return", "escape", "ctrl+d"} :
       CASE key = "upArrow" ->
              /\ historySelection > 0
              /\ historySelection' = historySelection - 1
              /\ UNCHANGED <<mode, tuiPairs, tuiOptions, deleting, exited, tuiOut>>
         [] key = "downArrow" ->
              /\ historySelection < Len(historyItems) - 1
              /\ historySelection' = historySelection + 1
              /\ UNCHANGED <<mode, tuiPairs, tuiOptions, deleting, exited, tuiOut>>
         [] key = "return" ->
              IF historySelection + 1 \in DOMAIN historyItems
                THEN /\ tuiPairs' = EntryPairs(historyItems[historySelection + 1])
                     /\ tuiOptions' = DefaultOptions
                     /\ mode' = "options"
                     /\ UNCHANGED <<historySelection, deleting, exited, tuiOut>>
                ELSE /\ exited' = TRUE
                     /\ tuiOut' = [tuiOut EXCEPT !.message = TypeError,
                                                 !.exitCode = <<1>>]
                     /\ UNCHANGED <<historySelection, mode, tuiPairs, tuiOptions,
                                    deleting>>
         [] key = "escape" ->
              /\ mode' = "menu"
              /\ UNCHANGED <<historySelection, tuiPairs, tuiOptions, deleting,
                             exited, tuiOut>>
         [] key = "ctrl+d" ->
              /\ Len(historyItems) > 0
              /\ historySelection + 1 \in DOMAIN historyItems
              /\ Len(deleting) < MaxDeletes
              /\ deleting' =
                   Append(deleting,
                          [id |-> historyItems[historySelection + 1],
                           historySelection |-> historySelection,
                           step |-> "loadHistory", history |-> <<>>])
              /\ UNCHANGED <<historySelection, mode, tuiPairs, tuiOptions, exited,
                             tuiOut>>
  /\ UNCHANGED <<store, menuSelection, historyItems, offHistory>>

\* history.filter(item => item.id !== id)
FilteredHistory(history, id) == SelectSeq(history, LAMBDA item : item # id)

\* if (historySelection >= items.length && items.length > 0)
\*   newState.historySelection = items.length - 1
\* with the historySelection the handler read when Ctrl+D was pressed
NewSelection(call, items) ==
  IF call.historySelection >= Len(items) /\ Len(items) > 0
    THEN Len(items) - 1 ELSE historySelection

\* One await of a pending deletion settles: deleteHistoryItem reads the
\* file, writes it without the entry, getFormattedHistory reads it again and
\* the reaction calls setState.  A rejection is handled nowhere and ends the
\* chain.
DeleteSettles ==
  /\ ui = "KeyHandlers"
  /\ ~exited
  /\ \E k \in DOMAIN deleting, ok \in BOOLEAN :
       LET call == deleting[k]
       IN IF ~ok
            THEN /\ deleting' = Without(deleting, k - 1)
                 /\ UNCHANGED <<store, historyItems, historySelection, mode>>
          ELSE IF call.step = "loadHistory"
            THEN /\ deleting' = [deleting EXCEPT ![k].step = "writeFile",
                                                 ![k].history = store]
                 /\ UNCHANGED <<store, historyItems, historySelection, mode>>
          ELSE IF call.step = "writeFile"
            THEN /\ store' = FilteredHistory(call.history, call.id)
                 /\ deleting' =
                      [deleting EXCEPT ![k].step = "getFormattedHistory"]
                 /\ UNCHANGED <<historyItems, historySelection, mode>>
          ELSE /\ historyItems' = store
               /\ historySelection' = NewSelection(call, store)
               /\ mode' = IF Len(store) = 0 THEN "menu" ELSE mode
               /\ deleting' = Without(deleting, k - 1)
               /\ store' = store
  /\ UNCHANGED <<tuiPairs, exited, tuiOut, tuiOptions, menuSelection,
                 offHistory>>

\* The menu is shown; the history was read from the file
MenuShown ==
  /\ ui = "KeyHandlers"
  /\ tuiPairs = <<EmptyPair>>
  /\ currentPair = 0
  /\ currentField = "before"
  /\ mode = "menu"
  /\ saving = <<>>
  /\ submissions = <<>>
  /\ exited = FALSE
  /\ tuiPc = "idle"
  /\ tuiOut = [message |-> "", exitCode |-> <<>>, runVRT |-> <<>>]
  /\ store \in { [k \in 1..n |-> n + 1 - k] : n \in 0..MaxHistory }
  /\ historyItems = store
  /\ menuSelection = 0
  /\ historySelection = 0
  /\ deleting = <<>>
  /\ saveErrors = 0
  /\ hp = "idle"
  /\ optionSelection = 0 /\ editingOption = FALSE /\ tempOptionValue = <<>>
  /\ tuiOptions = DefaultOptions
  /\ lastKey = None

InitMenu ==
  RunIdle /\ DiffIdle /\ PageIdle /\ ReportIdle /\ LegacyIdle /\ MenuShown

NextMenu == handleMenuMode \/ handleHistoryMode \/ DeleteSettles

SpecMenu == InitMenu /\ [][NextMenu]_vars

\* C32: in the history screen of the key handlers, whenever mode is
\* "history" the selection satisfies 0 <= historySelection <
\* historyItems.length, under every interleaving of the keys (up, down,
\* Enter, Ctrl+D) with the completion of the Ctrl+D deletions; Enter
\* therefore never selects a history item that does not exist.
C32_SelectionInRange ==
  /\ (ui = "KeyHandlers" /\ mode = "history") =>
       (0 <= historySelection /\ historySelection < Len(historyItems))
  /\ tuiOut.message # TypeError
\* =========================================================================
\* The file-driven runner (unnamed/part_002): program.action with --file
\* =========================================================================

MaxLines == 3

\* A line of the file is a pair of URLs, or one the loop skips (empty,
\* comment or malformed)
LineKinds == {"pair", "skipped"}

\* takeScreenshot, fs.pathExists and compareImages of one pair: no
\* mismatched pixel, some, -1 for different dimensions, a screenshot file
\* that is missing, or an exception
PairResults == {"identical", "different", "dimensions", "missing", "threw"}

\* A test of mainSuite.tests: its state, and how many times its uuid is in
\* mainSuite.passes or mainSuite.failures
NewTest == [state |-> "failed", listed |-> 0]

\* reportData.stats.passes++ / failures++ with the push of test.uuid
Counted(l, result) ==
  LET n == Len(l.tests)
  IN IF result = "identical"
       THEN [l EXCEPT !.stats.passes = @ + 1,
                      !.tests[n] = [state |-> "passed", listed |-> 1]]
       ELSE [l EXCEPT !.stats.failures = @ + 1,
                      !.tests[n].listed = @ + 1]

\* catch (fileError): fileTest is pushed, stats.tests = 1, stats.failures = 1
FileError(l) ==
  [l EXCEPT !.pc = "finalize",
            !.tests = Append(@, [state |-> "failed", listed |-> 1]),
            !.stats.tests = 1,
            !.stats.failures = 1]

\* const fileContent = await fs.readFile(options.file, "utf-8")
LegacyReadFile ==
  /\ legacy.pc = "readFile"
  /\ \E read \in BOOLEAN :
       legacy' = IF read THEN [legacy EXCEPT !.pc = "line"] ELSE FileError(legacy)
  /\ UNCHANGED <<runVars, diffVars, pageVars, reportVars, tuiVars, menuVars,
                 optionVars, fileVars>>

\* for (const line of lines): a skipped line, or reportData.stats.tests++
\* and the names of the directory of the pair
LegacyLine ==
  /\ legacy.pc = "line"
  /\ legacy' =
       IF legacy.lines = <<>> THEN [legacy EXCEPT !.pc = "finalize"]
       ELSE IF Head(legacy.lines) = "skipped"
         THEN [legacy EXCEPT !.lines = Tail(@)]
       ELSE [legacy EXCEPT !.lines = Tail(@), !.stats.tests = @ + 1,
                           !.pc = "ensureDir"]
  /\ UNCHANGED <<runVars, diffVars, pageVars, reportVars, tuiVars, menuVars,
                 optionVars, fileVars>>

\* await fs.ensureDir(pairResultsDir), outside the try of the pair; then
\* mainSuite.tests.push(test)
LegacyEnsureDir ==
  /\ legacy.pc = "ensureDir"
  /\ \E made \in BOOLEAN :
       legacy' = IF made
                   THEN [legacy EXCEPT !.pc = "pair", !.tests = Append(@, NewTest)]
                   ELSE FileError(legacy)
  /\ UNCHANGED <<runVars, diffVars, pageVars, reportVars, tuiVars, menuVars,
                 optionVars, fileVars>>

\* try { screenshots, comparison, the four outcomes } catch (pairError) {
\*   if (!mainSuite.failures.includes(test.uuid)) failures++ } finally { }
LegacyPair ==
  /\ legacy.pc = "pair"
  /\ \E result \in PairResults :
       legacy' = [Counted(legacy, result) EXCEPT !.pc = "line"]
  /\ UNCHANGED <<runVars, diffVars, pageVars, reportVars, tuiVars, menuVars,
                 optionVars, fileVars>>

\* "Ensure stats are consistent": tests that are neither passes nor failures
\* are added to the failures
LegacyFinalize ==
  /\ legacy.pc = "finalize"
  /\ LET stats == legacy.stats
         unaccountedTests == stats.tests - (stats.passes + stats.failures)
     IN legacy' =
          IF stats.tests > 0 /\ unaccountedTests > 0
            THEN [legacy EXCEPT !.pc = "done", !.stats.failures = @ + unaccountedTests]
            ELSE [legacy EXCEPT !.pc = "done"]
  /\ UNCHANGED <<runVars, diffVars, pageVars, reportVars, tuiVars, menuVars,
                 optionVars, fileVars>>

LegacyAction ==
  \/ LegacyReadFile \/ LegacyLine \/ LegacyEnsureDir \/ LegacyPair
  \/ LegacyFinalize

InitLegacy ==
  /\ RunIdle /\ DiffIdle /\ PageIdle
  /\ ReportIdle /\ TuiIdle /\ MenuIdle /\ OptionsIdle /\ FileIdle
  /\ \E lines \in UNION { [1..n -> LineKinds] : n \in 0..MaxLines } :
       legacy = [pc |-> "readFile", lines |-> lines,
                 stats |-> [tests |-> 0, passes |-> 0, failures |-> 0],
                 tests |-> <<>>]

NextLegacy == LegacyAction

SpecLegacy == InitLegacy /\ [][NextLegacy]_vars

TestsIn(state) ==
  Cardinality({ k \in DOMAIN legacy.tests : legacy.tests[k].state = state })

\* C38: in the file-driven runner, whenever the action finishes with
\* stats.tests > 0, stats.passes + stats.failures = stats.tests and every
\* test pushed to the main suite is counted exactly once, as a pass or as a
\* failure, including when a pair throws or when reading or processing the
\* file fails part-way.
C38_StatsConsistent ==
  (legacy.pc = "done" /\ legacy.stats.tests > 0) =>
    /\ legacy.stats.passes + legacy.stats.failures = legacy.stats.tests
    /\ \A k \in DOMAIN legacy.tests : legacy.tests[k].listed = 1
    /\ legacy.stats.passes = TestsIn("passed")
    /\ legacy.stats.failures = TestsIn("failed")

====
